---- MODULE Spec2Model ----
(***************************************************************************)
(* Waverider analysis engine (backend/src/services/analysisEngine and the  *)
(* analysis controller) as a state machine.                                *)
(*                                                                         *)
(* Numbers.  JavaScript numbers are modelled exactly, without rounding, as *)
(* extended reals of the form  n/d + s*sqrt(qn/qd)  (s in {-1,0,1}), plus  *)
(* Infinity, -Infinity and NaN with their IEEE-754 arithmetic.  A decibel  *)
(* value 20*log10(x) is carried by its argument x (kind "db").  An         *)
(* operation whose exact result has no such form is Unrepresentable, which *)
(* stops TLC with an error instead of yielding a wrong value.              *)
(***************************************************************************)
EXTENDS Integers, Sequences, FiniteSets, TLC

VARIABLES pc, call, prev, uuidCount, clock, db, http, store

vars == <<pc, call, prev, uuidCount, clock, db, http, store>>

----------------------------------------------------------------------------
(* Integer helpers *)

AbsI(n) == IF n < 0 THEN -n ELSE n

SgnI(n) == IF n < 0 THEN -1 ELSE IF n = 0 THEN 0 ELSE 1

RECURSIVE GCD(_, _)
GCD(a, b) == IF b = 0 THEN a ELSE GCD(b, a % b)

RECURSIVE NewtonSqrt(_, _)
NewtonSqrt(n, x) ==
    LET y == (x + n \div x) \div 2
    IN IF y >= x THEN x ELSE NewtonSqrt(n, y)

\* floor of the square root of n >= 0
ISqrt(n) == IF n < 2 THEN n ELSE NewtonSqrt(n, n)

IsSquare(n) == n >= 0 /\ ISqrt(n) * ISqrt(n) = n

\* evaluating this stops TLC: the value is outside the number model
Unrepresentable == CHOOSE v \in {} : TRUE

----------------------------------------------------------------------------
(* Extended reals *)

Raw(k, n, d, s, qn, qd) == [k |-> k, n |-> n, d |-> d, s |-> s, qn |-> qn, qd |-> qd]

NaN == Raw("nan", 0, 1, 0, 0, 1)

PosInf == Raw("inf", 1, 1, 0, 0, 1)

NegInf == Raw("inf", -1, 1, 0, 0, 1)

\* the JavaScript value undefined (an absent option or parameter)
Undefined == Raw("undef", 0, 1, 0, 0, 1)

\* n/d, d # 0, in lowest terms
Rat(n, d) ==
    LET g == GCD(AbsI(n), AbsI(d))
        sg == IF d < 0 THEN -1 ELSE 1
    IN Raw("fin", sg * (n \div g), sg * (d \div g), 0, 0, 1)

Num(n) == Rat(n, 1)

\* n/d + s*sqrt(qn/qd) in canonical form (qn/qd >= 0): a radicand that is a
\* perfect square is folded into the rational part
Mk(n, d, s, qn, qd) ==
    IF s = 0 \/ qn = 0 THEN Rat(n, d)
    ELSE LET g == GCD(AbsI(qn), AbsI(qd))
             rn == AbsI(qn) \div g
             rd == AbsI(qd) \div g
         IN IF IsSquare(rn) /\ IsSquare(rd)
            THEN Rat(n * ISqrt(rd) + s * ISqrt(rn) * d, d * ISqrt(rd))
            ELSE LET a == Rat(n, d)
                 IN Raw("fin", a.n, a.d, s, rn, rd)

IsFin(x) == x.k = "fin"

\* sign of a finite or infinite value
Sign(x) ==
    IF x.k = "inf" THEN x.n
    ELSE IF x.s = 0 THEN SgnI(x.n)
    ELSE IF x.n = 0 THEN x.s
    ELSE IF SgnI(x.n) = x.s THEN x.s
    \* opposite signs: compare (n/d)^2 with qn/qd
    ELSE IF x.n * x.n * x.qd > x.qn * x.d * x.d THEN SgnI(x.n) ELSE x.s

Neg(x) ==
    IF x.k = "nan" THEN NaN
    ELSE IF x.k = "inf" THEN Raw("inf", -x.n, 1, 0, 0, 1)
    ELSE Raw("fin", -x.n, x.d, -x.s, x.qn, x.qd)

\* sum of the irrational parts of two finite values
AddSurds(x, y) ==
    IF x.s = 0 THEN [s |-> y.s, qn |-> y.qn, qd |-> y.qd]
    ELSE IF y.s = 0 THEN [s |-> x.s, qn |-> x.qn, qd |-> x.qd]
    ELSE LET rn == x.qn * y.qd
             rd == x.qd * y.qn
             g == GCD(rn, rd)
         IN IF IsSquare(rn \div g) /\ IsSquare(rd \div g)
            \* sqrt(qx) = (cn/cd) * sqrt(qy): the two roots combine
            THEN LET cn == x.s * ISqrt(rn \div g) + y.s * ISqrt(rd \div g)
                     cd == ISqrt(rd \div g)
                 IN [s |-> SgnI(cn), qn |-> cn * cn * y.qn, qd |-> cd * cd * y.qd]
            ELSE Unrepresentable

Add(x, y) ==
    IF x.k = "nan" \/ y.k = "nan" THEN NaN
    ELSE IF x.k = "inf" /\ y.k = "inf" THEN (IF x.n = y.n THEN x ELSE NaN)
    ELSE IF x.k = "inf" THEN x
    ELSE IF y.k = "inf" THEN y
    ELSE LET r == AddSurds(x, y)
         IN Mk(x.n * y.d + y.n * x.d, x.d * y.d, r.s, r.qn, r.qd)

Sub(x, y) == Add(x, Neg(y))

Mul(x, y) ==
    IF x.k = "nan" \/ y.k = "nan" THEN NaN
    ELSE IF x.k = "inf" \/ y.k = "inf"
         THEN (IF Sign(x) * Sign(y) = 0 THEN NaN
               ELSE IF Sign(x) * Sign(y) > 0 THEN PosInf ELSE NegInf)
    ELSE IF y.s = 0
         THEN Mk(x.n * y.n, x.d * y.d, x.s * SgnI(y.n), x.qn * y.n * y.n, x.qd * y.d * y.d)
    ELSE IF x.s = 0
         THEN Mk(x.n * y.n, x.d * y.d, y.s * SgnI(x.n), y.qn * x.n * x.n, y.qd * x.d * x.d)
    ELSE IF x.n = 0 /\ y.n = 0
         THEN Mk(0, 1, x.s * y.s, x.qn * y.qn, x.qd * y.qd)
    ELSE Unrepresentable

\* 1/y for a finite pure y # 0
Recip(y) ==
    IF y.s = 0 THEN Rat(y.d, y.n)
    ELSE IF y.n = 0 THEN Mk(0, 1, y.s, y.qd, y.qn)
    ELSE Unrepresentable

\* IEEE division (the sign of a zero is not modelled: every zero is +0)
Div(x, y) ==
    IF x.k = "nan" \/ y.k = "nan" THEN NaN
    ELSE IF x.k = "inf" /\ y.k = "inf" THEN NaN
    ELSE IF y.k = "inf" THEN Num(0)
    ELSE IF Sign(y) = 0
         THEN (IF Sign(x) = 0 THEN NaN ELSE IF Sign(x) > 0 THEN PosInf ELSE NegInf)
    ELSE IF x.k = "inf"
         THEN (IF Sign(x) * Sign(y) > 0 THEN PosInf ELSE NegInf)
    ELSE Mul(x, Recip(y))

\* x < y; false when either is NaN
Lt(x, y) ==
    IF x.k = "nan" \/ y.k = "nan" THEN FALSE
    ELSE IF x.k = "inf" \/ y.k = "inf"
         THEN (IF x.k = "inf" /\ y.k = "inf" THEN x.n < y.n
               ELSE IF x.k = "inf" THEN x.n < 0 ELSE y.n > 0)
    ELSE IF x.s = 0 \/ y.s = 0 THEN Sign(Sub(y, x)) > 0
    ELSE IF x.n = 0 /\ y.n = 0
         THEN (IF x.s # y.s THEN x.s < y.s
               ELSE IF x.s > 0 THEN x.qn * y.qd < y.qn * x.qd
               ELSE x.qn * y.qd > y.qn * x.qd)
    ELSE Unrepresentable

Gt(x, y) == Lt(y, x)

\* x <= y and x >= y; false when either is NaN
Le(x, y) == x.k # "nan" /\ y.k # "nan" /\ ~Lt(y, x)

Ge(x, y) == Le(y, x)

\* Math.max and Math.min of two numbers
MathMax(x, y) == IF x.k = "nan" \/ y.k = "nan" THEN NaN ELSE IF Lt(x, y) THEN y ELSE x

MathMin(x, y) == IF x.k = "nan" \/ y.k = "nan" THEN NaN ELSE IF Lt(y, x) THEN y ELSE x

MathAbs(x) ==
    IF x.k = "nan" THEN NaN
    ELSE IF x.k = "inf" THEN PosInf
    ELSE IF Sign(x) < 0 THEN Neg(x) ELSE x

MathSqrt(x) ==
    IF x.k = "nan" THEN NaN
    ELSE IF x.k = "inf" THEN (IF x.n > 0 THEN PosInf ELSE NaN)
    ELSE IF Sign(x) < 0 THEN NaN
    ELSE IF x.s = 0 THEN Mk(0, 1, 1, x.n, x.d)
    ELSE Unrepresentable

\* Math.floor of a rational (TLA+ \div rounds towards minus infinity)
MathFloor(x) ==
    IF x.k # "fin" THEN x
    ELSE IF x.s = 0 THEN Num(x.n \div x.d)
    ELSE Unrepresentable

\* 20 * Math.log10(x), carried by its argument x
Db(x) ==
    IF x.k = "nan" THEN NaN
    ELSE IF x.k = "inf" THEN (IF x.n > 0 THEN PosInf ELSE NaN)
    ELSE IF Sign(x) < 0 THEN NaN
    ELSE IF Sign(x) = 0 THEN NegInf
    ELSE IF x = Num(1) THEN Num(0)
    ELSE Raw("db", x.n, x.d, x.s, x.qn, x.qd)

\* x is a finite number >= 0 (decibel values included)
FiniteNonNeg(x) ==
    \/ x.k = "fin" /\ Sign(x) >= 0
    \/ x.k = "db" /\ Gt(Raw("fin", x.n, x.d, x.s, x.qn, x.qd), Num(1))

\* JavaScript truthiness of a number or undefined
Truthy(x) == ~(x.k \in {"undef", "nan"}) /\ ~(x.k = "fin" /\ Sign(x) = 0)

\* x || dflt
OrElse(x, dflt) == IF Truthy(x) THEN x ELSE dflt

\* destructuring default: { x = dflt } = options
Default(x, dflt) == IF x.k = "undef" THEN dflt ELSE x

----------------------------------------------------------------------------
(* Outcomes of a call: a returned value, a thrown error, or a loop that    *)
(* never ends.  uuids counts the calls of uuidv4 the call has made.        *)

NoError == [name |-> "", message |-> <<>>]

Ok(v, u) == [kind |-> "ok", value |-> v, error |-> NoError, uuids |-> u]

Throw(name, message, u) ==
    [kind |-> "throw", value |-> <<>>, error |-> [name |-> name, message |-> message], uuids |-> u]

Diverge(u) == [kind |-> "diverge", value |-> <<>>, error |-> NoError, uuids |-> u]

\* the TypeError of destructuring or reading a property of null / undefined
DestructureNull(prop) ==
    Throw("TypeError", <<"Cannot destructure property '", prop, "' of 'options' as it is null.">>, 0)

----------------------------------------------------------------------------
(* Typed arrays *)

\* one element of new Float32Array(array): ToNumber, then rounding to binary32.
\* A finite number beyond the binary32 range ("big") becomes +-Infinity and a
\* non-numeric string ("str") NaN; the modelled finite values are kept exactly.
ToFloat32(v) ==
    IF v.k = "big" THEN (IF v.n > 0 THEN PosInf ELSE NegInf)
    ELSE IF v.k = "str" THEN NaN
    ELSE v

Float32Array(array) == [i \in 1..Len(array) |-> ToFloat32(array[i])]

\* TypedArray.prototype.slice(start, end) with 0-based, possibly negative indices
Slice(data, start, end) ==
    LET len == Len(data)
        from == IF start < 0 THEN (IF len + start < 0 THEN 0 ELSE len + start)
                ELSE (IF start > len THEN len ELSE start)
        to == IF end < 0 THEN (IF len + end < 0 THEN 0 ELSE len + end)
              ELSE (IF end > len THEN len ELSE end)
    IN IF to > from THEN SubSeq(data, from + 1, to) ELSE <<>>

\* a loop  for (i = start; i < length - windowSize; i += windowSize)  that
\* is entered with a step <= 0 never ends
LoopDiverges(start, length, windowSize) == windowSize <= 0 /\ start < length - windowSize

----------------------------------------------------------------------------
(* analyzeAmplitude *)

AmplitudeStart == [sum |-> Num(0), sumSquares |-> Num(0), peak |-> Num(0), zeroCrossings |-> 0]

\* the statistics loop without Math.abs: C8 does not hold of it
AmplitudeStepSigned(acc, audioData, i) ==
    [sum |-> Add(acc.sum, audioData[i]),
     sumSquares |-> Add(acc.sumSquares, Mul(audioData[i], audioData[i])),
     peak |-> MathMax(acc.peak, audioData[i]),
     zeroCrossings |->
         IF i > 1 /\ (Ge(audioData[i], Num(0)) # Ge(audioData[i - 1], Num(0)))
         THEN acc.zeroCrossings + 1 ELSE acc.zeroCrossings]

\* the statistics loop with a sample of 0 taken for negative: C16 does not
\* hold of it
AmplitudeStepStrict(acc, audioData, i) ==
    [sum |-> Add(acc.sum, MathAbs(audioData[i])),
     sumSquares |-> Add(acc.sumSquares, Mul(MathAbs(audioData[i]), MathAbs(audioData[i]))),
     peak |-> MathMax(acc.peak, MathAbs(audioData[i])),
     zeroCrossings |->
         IF i > 1 /\ (Gt(audioData[i], Num(0)) # Gt(audioData[i - 1], Num(0)))
         THEN acc.zeroCrossings + 1 ELSE acc.zeroCrossings]

\* one iteration of the statistics loop; i is the 1-based index of audioData[i-1]
AmplitudeStep(acc, audioData, i) ==
    LET sample == MathAbs(audioData[i])
    IN [sum |-> Add(acc.sum, sample),
        sumSquares |-> Add(acc.sumSquares, Mul(sample, sample)),
        peak |-> MathMax(acc.peak, sample),
        zeroCrossings |->
            IF i > 1 /\ (Ge(audioData[i], Num(0)) # Ge(audioData[i - 1], Num(0)))
            THEN acc.zeroCrossings + 1 ELSE acc.zeroCrossings]

RECURSIVE AmplitudeLoop(_, _, _)
AmplitudeLoop(acc, audioData, i) ==
    IF i <= Len(audioData)
    THEN AmplitudeLoop(AmplitudeStep(acc, audioData, i), audioData, i + 1)
    ELSE acc

\* a results object without the peak > 0 guards: C17 does not hold of it
AmplitudeSummaryUnguarded(acc, length, rms) ==
    [average |-> Div(acc.sum, length),
     rms |-> rms,
     peak |-> acc.peak,
     dynamicRange |-> Db(Div(acc.peak, rms)),
     crestFactor |-> Div(acc.peak, rms),
     zeroCrossings |-> acc.zeroCrossings]

\* the results object of analyzeAmplitude from the totals of the loop
AmplitudeSummary(acc, length, rms) ==
    [average |-> Div(acc.sum, length),
     rms |-> rms,
     peak |-> acc.peak,
     dynamicRange |-> IF Gt(acc.peak, Num(0)) THEN Db(Div(acc.peak, rms)) ELSE Num(0),
     crestFactor |-> IF Gt(acc.peak, Num(0)) THEN Div(acc.peak, rms) ELSE Num(0),
     zeroCrossings |-> acc.zeroCrossings]

AmplitudeTotals(acc, length) ==
    AmplitudeSummary(acc, length, MathSqrt(Div(acc.sumSquares, length)))

AmplitudeResults(audioData) ==
    AmplitudeTotals(AmplitudeLoop(AmplitudeStart, audioData, 1), Num(Len(audioData)))

analyzeAmplitude(audioData, options) ==
    IF options.isNull THEN DestructureNull("windowSize")
    ELSE Ok(AmplitudeResults(audioData), 0)

----------------------------------------------------------------------------
(* helpers of the engine *)

RECURSIVE SumSquares(_, _)
SumSquares(data, i) ==
    IF i <= Len(data) THEN Add(Mul(data[i], data[i]), SumSquares(data, i + 1)) ELSE Num(0)

calculateRMS(data) == MathSqrt(Div(SumSquares(data, 1), Num(Len(data))))

RECURSIVE SumOf(_, _)
SumOf(data, i) == IF i <= Len(data) THEN Add(data[i], SumOf(data, i + 1)) ELSE Num(0)

RECURSIVE SumSquaredDeviations(_, _, _)
SumSquaredDeviations(data, mean, i) ==
    IF i <= Len(data)
    THEN Add(Mul(Sub(data[i], mean), Sub(data[i], mean)), SumSquaredDeviations(data, mean, i + 1))
    ELSE Num(0)

calculateVariance(data) ==
    LET mean == Div(SumOf(data, 1), Num(Len(data)))
    IN Div(SumSquaredDeviations(data, mean, 1), Num(Len(data)))

detectTransition(window, parameters) ==
    Gt(calculateVariance(window), OrElse(parameters.sensitivity, Rat(1, 2)))

calculateConfidence(analysis, profile) ==
    LET confidence ==
            IF profile.type = "quiet"
            THEN MathMax(Num(0), Sub(Num(1), Div(analysis.rms, OrElse(profile.parameters.maxAmplitude, Rat(1, 10)))))
            ELSE IF profile.type = "intensity"
            THEN MathMin(Num(1), Div(analysis.rms, OrElse(profile.parameters.minAmplitude, Rat(7, 10))))
            ELSE Rat(1, 2)
    IN MathMax(Num(0), MathMin(Num(1), confidence))

\* the integer a sample count holds (window sizes are finite in the modelled inputs)
Samples(x) == IF x.k = "fin" /\ x.s = 0 /\ x.d = 1 THEN x.n ELSE Unrepresentable

----------------------------------------------------------------------------
(* detectPatterns *)

\* the entry pushed when the change between two windows exceeds the threshold
TransitionEntry(time, before, after, change, threshold) ==
    IF Gt(change, threshold)
    THEN <<[time |-> time,
            change |-> change,
            direction |-> IF Gt(after, before) THEN "increasing" ELSE "decreasing"]>>
    ELSE <<>>

TransitionBetween(time, before, after, threshold) ==
    TransitionEntry(time, before, after, MathAbs(Sub(after, before)), threshold)

RECURSIVE TransitionsLoop(_, _, _, _, _)
TransitionsLoop(audioData, sampleRate, threshold, windowSize, i) ==
    IF i < Len(audioData) - windowSize
    THEN TransitionBetween(Div(Num(i), sampleRate),
                           calculateRMS(Slice(audioData, i - windowSize, i)),
                           calculateRMS(Slice(audioData, i, i + windowSize)),
                           threshold)
         \o TransitionsLoop(audioData, sampleRate, threshold, windowSize, i + windowSize)
    ELSE <<>>

TransitionsFrom(audioData, sampleRate, threshold, windowSize) ==
    IF LoopDiverges(windowSize, Len(audioData), windowSize) THEN Diverge(0)
    ELSE Ok(TransitionsLoop(audioData, sampleRate, threshold, windowSize, windowSize), 0)

detectTransitions(audioData, sampleRate, threshold) ==
    TransitionsFrom(audioData, sampleRate, threshold, Samples(MathFloor(Mul(Rat(1, 10), sampleRate))))

\* the fixed loudness level of a loud section
LoudLevel == Rat(7, 10)

PatternSection(i, windowSize, sampleRate, rms) ==
    [start |-> Div(Num(i), sampleRate), end |-> Div(Num(i + windowSize), sampleRate), rms |-> rms]

\* the push of one window's section onto the quiet or the loud list
PushSection(patterns, section, threshold) ==
    IF Lt(section.rms, threshold)
    THEN [patterns EXCEPT !.quietSections = Append(@, section)]
    ELSE IF Gt(section.rms, LoudLevel)
    THEN [patterns EXCEPT !.loudSections = Append(@, section)]
    ELSE patterns

RECURSIVE SectionsLoop(_, _, _, _, _, _)
SectionsLoop(patterns, audioData, sampleRate, threshold, windowSize, i) ==
    IF i < Len(audioData) - windowSize
    THEN SectionsLoop(PushSection(patterns,
                                  PatternSection(i, windowSize, sampleRate,
                                                 calculateRMS(Slice(audioData, i, i + windowSize))),
                                  threshold),
                      audioData, sampleRate, threshold, windowSize, i + windowSize)
    ELSE patterns

EmptyPatterns ==
    [quietSections |-> <<>>, loudSections |-> <<>>, transitions |-> <<>>, repetitivePatterns |-> <<>>]

\* the patterns object once detectTransitions has run
PatternsWith(patterns, transitions) ==
    IF transitions.kind = "ok"
    THEN Ok([patterns EXCEPT !.transitions = transitions.value], 0)
    ELSE transitions

PatternsFrom(audioData, sampleRate, threshold, windowSize) ==
    IF LoopDiverges(0, Len(audioData), windowSize) THEN Diverge(0)
    ELSE PatternsWith(SectionsLoop(EmptyPatterns, audioData, sampleRate, threshold, windowSize, 0),
                      detectTransitions(audioData, sampleRate, threshold))

PatternsAt(audioData, sampleRate, threshold, minDuration) ==
    PatternsFrom(audioData, sampleRate, threshold, Samples(MathFloor(Mul(minDuration, sampleRate))))

detectPatterns(audioData, options) ==
    IF options.isNull THEN DestructureNull("threshold")
    ELSE PatternsAt(audioData,
                    OrElse(options.sampleRate, Num(44100)),
                    Default(options.threshold, Rat(1, 10)),
                    Default(options.minDuration, Rat(1, 10)))

----------------------------------------------------------------------------
(* detectRegions and applyProfile *)

\* the match of the switch on profile.type
ProfileMatches(window, analysis, profile) ==
    IF profile.type = "quiet"
    THEN Lt(analysis.rms, OrElse(profile.parameters.maxAmplitude, Rat(1, 10)))
    ELSE IF profile.type = "intensity"
    THEN Gt(analysis.rms, OrElse(profile.parameters.minAmplitude, Rat(7, 10)))
    ELSE IF profile.type = "transition"
    THEN detectTransition(window, profile.parameters)
    ELSE FALSE

\* a region whose start is read off the identifier source: the amended C3
\* does not hold of it
RegionByIdentifier(uuid, i, windowSize, sampleRate, profile, analysis) ==
    [id |-> uuid,
     start |-> Div(Num(uuid), sampleRate),
     end |-> Div(Num(i + windowSize), sampleRate),
     profile |-> profile.id,
     confidence |-> calculateConfidence(analysis, profile),
     data |-> analysis]

\* the region pushed for a matching window; uuid is the value uuidv4() returns
Region(uuid, i, windowSize, sampleRate, profile, analysis) ==
    [id |-> uuid,
     start |-> Div(Num(i), sampleRate),
     end |-> Div(Num(i + windowSize), sampleRate),
     profile |-> profile.id,
     confidence |-> calculateConfidence(analysis, profile),
     data |-> analysis]

\* one window of applyProfile: its analysis, the switch and the push.
\* uuidv4() is modelled as a collision-free source: the k-th identifier issued is k
PushRegion(regions, window, analysis, profile, sampleRate, windowSize, i, uuid0) ==
    IF ProfileMatches(window, analysis, profile)
    THEN Append(regions, Region(uuid0 + Len(regions) + 1, i, windowSize, sampleRate, profile, analysis))
    ELSE regions

RECURSIVE ProfileLoop(_, _, _, _, _, _, _)
ProfileLoop(regions, audioData, profile, sampleRate, windowSize, i, uuid0) ==
    IF i < Len(audioData) - windowSize
    THEN ProfileLoop(PushRegion(regions,
                                Slice(audioData, i, i + windowSize),
                                analyzeAmplitude(Slice(audioData, i, i + windowSize), [isNull |-> FALSE]).value,
                                profile, sampleRate, windowSize, i, uuid0),
                     audioData, profile, sampleRate, windowSize, i + windowSize, uuid0)
    ELSE regions

\* the regions applyProfile returns, with the number of identifiers they took
Returned(regions) == Ok(regions, Len(regions))

ProfileWindows(audioData, profile, sampleRate, windowSize, uuid0) ==
    IF LoopDiverges(0, Len(audioData), windowSize) THEN Diverge(0)
    ELSE Returned(ProfileLoop(<<>>, audioData, profile, sampleRate, windowSize, 0, uuid0))

applyProfile(audioData, profile, sampleRate, uuid0) ==
    IF ~profile.parameters.defined
    THEN Throw("TypeError", <<"Cannot read properties of undefined (reading 'windowSize')">>, 0)
    ELSE ProfileWindows(audioData, profile, sampleRate,
                        Samples(MathFloor(Mul(OrElse(profile.parameters.windowSize, Num(1)), sampleRate))),
                        uuid0)

RECURSIVE RegionsLoop(_, _, _, _, _, _)

\* regions.push(...) that leaves out a region whose span is already listed
PushDistinctSpans(regions, profileRegions, audioData, profiles, sampleRate, p, uuid0) ==
    IF profileRegions.kind = "ok"
    THEN LET Unlisted(r) == \A k \in 1..Len(regions) :
                               regions[k].start # r.start \/ regions[k].end # r.end
         IN RegionsLoop(regions \o SelectSeq(profileRegions.value, Unlisted),
                        audioData, profiles, sampleRate, p + 1, uuid0)
    ELSE [profileRegions EXCEPT !.uuids = Len(regions)]

\* regions.push(...profileRegions), or the propagation of what applyProfile did
PushProfileRegions(regions, profileRegions, audioData, profiles, sampleRate, p, uuid0) ==
    IF profileRegions.kind = "ok"
    THEN RegionsLoop(regions \o profileRegions.value, audioData, profiles, sampleRate, p + 1, uuid0)
    ELSE [profileRegions EXCEPT !.uuids = Len(regions)]

RegionsLoop(regions, audioData, profiles, sampleRate, p, uuid0) ==
    IF p <= Len(profiles)
    THEN PushProfileRegions(regions,
                            applyProfile(audioData, profiles[p], sampleRate, uuid0 + Len(regions)),
                            audioData, profiles, sampleRate, p, uuid0)
    ELSE Returned(regions)

detectRegions(audioData, options, uuid0) ==
    IF options.isNull THEN DestructureNull("profiles")
    ELSE RegionsLoop(<<>>, audioData,
                     IF options.profiles.defined THEN options.profiles.list ELSE <<>>,
                     Default(options.sampleRate, Num(44100)), 1, uuid0)

----------------------------------------------------------------------------
(* analyzeSpectral.  Values are exact: a cosine that is not rational, or a *)
(* quotient of two sums of a rational and a root, is outside what the      *)
(* model computes; blocks of up to 3 samples are computed in full.         *)

RECURSIVE IsPowerOfTwo(_)
IsPowerOfTwo(n) == n = 1 \/ (n > 1 /\ n % 2 = 0 /\ IsPowerOfTwo(n \div 2))

\* Math.cos(2 * Math.PI * p / q) and Math.sin of it, where they are rational
CosTurn(p, q) ==
    IF (12 * (p % q)) % q # 0 THEN Unrepresentable
    ELSE LET twelfths == (12 * (p % q)) \div q
         IN IF twelfths = 0 THEN Num(1)
            ELSE IF twelfths \in {2, 10} THEN Rat(1, 2)
            ELSE IF twelfths \in {3, 9} THEN Num(0)
            ELSE IF twelfths \in {4, 8} THEN Rat(-1, 2)
            ELSE IF twelfths = 6 THEN Num(-1)
            ELSE Unrepresentable

SinTurn(p, q) == CosTurn(4 * p - q, 4 * q)

\* the objects an engine operation can reach, by the name of the variable
\* that holds them: the caller's buffer and options (with the profiles in
\* them) and the arrays analyzeSpectral allocates
Heap(audioData, options) ==
    [audioData |-> audioData, options |-> options, block |-> <<>>, windowed |-> <<>>]

\* audioData.slice(0, fftSize): a new array holding a copy of the samples
SliceInto(heap, fftSize) == [heap EXCEPT !.block = Slice(heap.audioData, 0, fftSize)]

\* 0.5 * (1 - Math.cos((2 * Math.PI * i) / (length - 1))); 0 / 0 when length is 1
Hanning(i, length) ==
    IF length = 1 THEN NaN
    ELSE Mul(Rat(1, 2), Sub(Num(1), CosTurn(i, length - 1)))

\* an applyWindow that stores its products in the buffer of the caller:
\* C14 does not hold of it
WindowOnto(heap) ==
    [heap EXCEPT !.audioData = [i \in 1..Len(heap.audioData) |->
                                   IF i <= Len(heap.block)
                                   THEN Mul(heap.block[i], Hanning(i - 1, Len(heap.block)))
                                   ELSE heap.audioData[i]],
                 !.windowed = [i \in 1..Len(heap.block) |->
                                  Mul(heap.block[i], Hanning(i - 1, Len(heap.block)))]]

\* applyWindow(data): windowed = new Float32Array(data.length) and the
\* writes windowed[i] = data[i] * windowValue
applyWindow(heap) ==
    [heap EXCEPT !.windowed = [i \in 1..Len(heap.block) |->
                                  Mul(heap.block[i], Hanning(i - 1, Len(heap.block)))]]

\* the objects after applyWindow(audioData.slice(0, fftSize))
SpectralMemory(audioData, options) ==
    applyWindow(SliceInto(Heap(audioData, options), Samples(Default(options.fftSize, Num(2048)))))

\* complex numbers of fft-js: pairs <<re, im>>
ComplexAdd(a, b) == <<Add(a[1], b[1]), Add(a[2], b[2])>>

ComplexSubtract(a, b) == <<Sub(a[1], b[1]), Sub(a[2], b[2])>>

ComplexMultiply(a, b) ==
    <<Sub(Mul(a[1], b[1]), Mul(a[2], b[2])), Add(Mul(a[1], b[2]), Mul(a[2], b[1]))>>

\* e^(-2 pi i k / N)
Exponent(k, N) == <<CosTurn(-k, N), SinTurn(-k, N)>>

\* X[k] = even[k] + e * odd[k] and X[k + N / 2] = even[k] - e * odd[k]
Butterflies(evens, odds, N) ==
    [k \in 1..N |->
        IF k <= N \div 2
        THEN ComplexAdd(evens[k], ComplexMultiply(Exponent(k - 1, N), odds[k]))
        ELSE ComplexSubtract(evens[k - N \div 2],
                             ComplexMultiply(Exponent(k - 1 - N \div 2, N), odds[k - N \div 2]))]

\* the radix-2 recursion on a vector whose length is a power of two
RECURSIVE Transform(_)
Transform(vector) ==
    IF Len(vector) = 1 THEN <<<<vector[1], Num(0)>>>>
    ELSE Butterflies(Transform([j \in 1..(Len(vector) \div 2) |-> vector[2 * j - 1]]),
                     Transform([j \in 1..(Len(vector) \div 2) |-> vector[2 * j]]),
                     Len(vector))

\* fftjs.fft(windowedData): the radix-2 recursion of fft-js halves the input
\* down to length 1; it never gets there from length 0 (the call stack
\* overflows) and reads a missing element when a length is odd
fft(windowedData) ==
    IF Len(windowedData) = 0 THEN Throw("RangeError", <<"Maximum call stack size exceeded">>, 0)
    ELSE IF ~IsPowerOfTwo(Len(windowedData))
    THEN Throw("TypeError", <<"Cannot read properties of undefined (reading '0')">>, 0)
    ELSE Ok(Transform(windowedData), 0)

\* fftResult.map(complex => Math.sqrt(re * re + im * im))
Magnitudes(fftResult) ==
    [k \in 1..Len(fftResult) |->
        MathSqrt(Add(Mul(fftResult[k][1], fftResult[k][1]), Mul(fftResult[k][2], fftResult[k][2])))]

\* the loop of the spectral centroid: it runs over every bin of the spectrum
RECURSIVE CentroidLoop(_, _, _, _, _, _)
CentroidLoop(weightedSum, magnitudeSum, magnitudes, sampleRate, fftSize, i) ==
    IF i < Len(magnitudes)
    THEN CentroidLoop(Add(weightedSum, Mul(Div(Mul(Num(i), sampleRate), fftSize), magnitudes[i + 1])),
                      Add(magnitudeSum, magnitudes[i + 1]),
                      magnitudes, sampleRate, fftSize, i + 1)
    ELSE [weightedSum |-> weightedSum, magnitudeSum |-> magnitudeSum]

\* magnitudeSum > 0 ? weightedSum / magnitudeSum : 0
SpectralCentroid(sums) ==
    IF Gt(sums.magnitudeSum, Num(0)) THEN Div(sums.weightedSum, sums.magnitudeSum) ELSE Num(0)

\* the loop of calculateBandEnergy never ends: i stays below end
BandDiverges(start, end) ==
    \/ start.k = "fin" /\ end.k = "inf" /\ end.n > 0
    \/ start.k = "inf" /\ start.n < 0 /\ Lt(start, end)

\* energy += magnitudes[i] * magnitudes[i]; an index outside the array reads
\* undefined, and the NaN it gives stays until the loop ends
RECURSIVE BandLoop(_, _, _, _)
BandLoop(energy, magnitudes, i, end) ==
    IF Lt(Num(i), end)
    THEN IF i < 0 \/ i >= Len(magnitudes) THEN NaN
         ELSE BandLoop(Add(energy, Mul(magnitudes[i + 1], magnitudes[i + 1])), magnitudes, i + 1, end)
    ELSE energy

calculateBandEnergy(magnitudes, start, end) ==
    IF start.k # "fin" \/ end.k # "fin" THEN Num(0)
    ELSE BandLoop(Num(0), magnitudes, Samples(start), end)

\* Math.max(...magnitudes)
RECURSIVE MaxOf(_, _)
MaxOf(magnitudes, k) ==
    IF k = 0 THEN NegInf ELSE MathMax(MaxOf(magnitudes, k - 1), magnitudes[k])

\* the bins below magnitudes.length / 2 that exceed the threshold
RECURSIVE Candidates(_, _, _, _, _)
Candidates(magnitudes, sampleRate, fftSize, threshold, i) ==
    IF 2 * i < Len(magnitudes)
    THEN (IF Gt(magnitudes[i + 1], threshold)
          THEN <<[frequency |-> Div(Mul(Num(i), sampleRate), fftSize), magnitude |-> magnitudes[i + 1]]>>
          ELSE <<>>)
         \o Candidates(magnitudes, sampleRate, fftSize, threshold, i + 1)
    ELSE <<>>

\* the place of an entry among sorted ones under (a, b) => b.magnitude -
\* a.magnitude: behind every entry it does not exceed (the sort is stable)
Inserted(sorted, entry) ==
    LET behind == Cardinality({k \in 1..Len(sorted) :
                                  \A j \in 1..k : ~Gt(entry.magnitude, sorted[j].magnitude)})
    IN SubSeq(sorted, 1, behind) \o <<entry>> \o SubSeq(sorted, behind + 1, Len(sorted))

\* a sort that leaves the entries in the order of their bins: the amended
\* C12 does not hold of it
Unsorted(frequencies, k) == SubSeq(frequencies, 1, k)

\* frequencies.sort((a, b) => b.magnitude - a.magnitude), on the first k entries
RECURSIVE SortByMagnitude(_, _)
SortByMagnitude(frequencies, k) ==
    IF k = 0 THEN <<>> ELSE Inserted(SortByMagnitude(frequencies, k - 1), frequencies[k])

\* .sort(...).slice(0, 5)
Strongest(frequencies) == Slice(SortByMagnitude(frequencies, Len(frequencies)), 0, 5)

findDominantFrequencies(magnitudes, sampleRate, fftSize) ==
    Strongest(Candidates(magnitudes, sampleRate, fftSize,
                         Mul(MaxOf(magnitudes, Len(magnitudes)), Rat(1, 10)), 0))

\* the results object of analyzeSpectral for a magnitude spectrum
SpectralBands(magnitudes, sampleRate, fftSize, bassEnd, midEnd) ==
    IF \/ BandDiverges(Num(0), bassEnd)
       \/ BandDiverges(bassEnd, midEnd)
       \/ BandDiverges(midEnd, Rat(Len(magnitudes), 2))
    THEN Diverge(0)
    ELSE Ok([spectralCentroid |->
                 SpectralCentroid(CentroidLoop(Num(0), Num(0), magnitudes, sampleRate, fftSize, 0)),
             spectralRolloff |-> Num(0),
             spectralFlux |-> Num(0),
             dominantFrequencies |-> findDominantFrequencies(magnitudes, sampleRate, fftSize),
             frequencyBands |->
                 [bass |-> calculateBandEnergy(magnitudes, Num(0), bassEnd),
                  mid |-> calculateBandEnergy(magnitudes, bassEnd, midEnd),
                  treble |-> calculateBandEnergy(magnitudes, midEnd, Rat(Len(magnitudes), 2))]],
            0)

\* everything analyzeSpectral does once it has the magnitudes
SpectralResults(magnitudes, sampleRate, fftSize) ==
    SpectralBands(magnitudes, sampleRate, fftSize,
                  MathFloor(Div(Mul(fftSize, Num(250)), sampleRate)),
                  MathFloor(Div(Mul(fftSize, Num(4000)), sampleRate)))

SpectralOf(fftResult, sampleRate, fftSize) ==
    IF fftResult.kind = "ok"
    THEN SpectralResults(Magnitudes(fftResult.value), sampleRate, fftSize)
    ELSE fftResult

analyzeSpectral(audioData, options) ==
    IF options.isNull THEN DestructureNull("fftSize")
    ELSE SpectralOf(fft(SpectralMemory(audioData, options).windowed),
                    Default(options.sampleRate, Num(44100)),
                    Default(options.fftSize, Num(2048)))

----------------------------------------------------------------------------
(* analyzeAudio *)

\* the four sub-analyses in the order the results object evaluates them;
\* uuid0 is the number of identifiers issued before detectRegions runs
SubAnalyses(audioData, options, uuid0) ==
    <<analyzeAmplitude(audioData, options),
      analyzeSpectral(audioData, options),
      detectPatterns(audioData, options),
      detectRegions(audioData, options, uuid0)>>

\* the first sub-analysis that does not return (0: all four return)
FirstStop(subs) ==
    IF \A k \in 1..Len(subs) : subs[k].kind = "ok" THEN 0
    ELSE CHOOSE k \in 1..Len(subs) :
            /\ subs[k].kind # "ok"
            /\ \A j \in 1..(k - 1) : subs[j].kind = "ok"

\* a catch block that rethrows what it caught: the amended C4 does not hold of it
Rethrown(error, u) == Throw(error.name, error.message, u)

\* the catch block: a new Error around the message of the caught one
AnalysisFailed(error, u) == Throw("Error", <<"Analysis failed: ">> \o error.message, u)

\* a results object that keeps what was computed before a failure: C5 does
\* not hold of it
PartialResults(id, now, sampleCount, subs, stop) ==
    Ok([id |-> id,
        timestamp |-> now,
        sampleCount |-> sampleCount,
        analysis |-> [amplitude |-> subs[1].value,
                      spectral |-> subs[2].value,
                      patterns |-> subs[3].value,
                      regions |-> subs[4].value]],
       1)

\* the results object, or the rethrow of the catch block
AudioResults(id, now, sampleCount, subs, stop) ==
    IF stop = 0
    THEN Ok([id |-> id,
             timestamp |-> now,
             sampleCount |-> sampleCount,
             analysis |-> [amplitude |-> subs[1].value,
                           spectral |-> subs[2].value,
                           patterns |-> subs[3].value,
                           regions |-> subs[4].value]],
            1 + subs[4].uuids)
    ELSE IF subs[stop].kind = "throw" THEN AnalysisFailed(subs[stop].error, 1 + subs[stop].uuids)
    ELSE Diverge(1 + subs[stop].uuids)

AudioAnalyses(id, now, sampleCount, subs) == AudioResults(id, now, sampleCount, subs, FirstStop(subs))

analyzeAudio(audioData, options, uuid0, now) ==
    AudioAnalyses(uuid0 + 1, now, Len(audioData), SubAnalyses(audioData, options, uuid0 + 1))

----------------------------------------------------------------------------
(* The analysis controller and the error-handling middleware *)

NoResponse ==
    [sent |-> FALSE, status |-> 0, success |-> FALSE, error |-> "", message |-> <<>>,
     hasData |-> FALSE, data |-> <<>>]

errorHandler(err) ==
    LET statusCode == IF err.name = "ValidationError" THEN 400
                      ELSE IF err.name = "UnauthorizedError" THEN 401
                      ELSE IF err.name = "NotFoundError" THEN 404
                      ELSE 500
        message == IF err.name = "ValidationError" THEN "Validation Error"
                   ELSE IF err.name = "UnauthorizedError" THEN "Unauthorized"
                   ELSE IF err.name = "NotFoundError" THEN "Resource Not Found"
                   ELSE "Internal Server Error"
    IN [sent |-> TRUE, status |-> statusCode, success |-> FALSE, error |-> message,
        message |-> err.message, hasData |-> FALSE, data |-> <<>>]

\* the response of POST /api/analysis/analyze to what the engine did
AnalyzeResponse(isArray, out) ==
    IF ~isArray
    THEN [sent |-> TRUE, status |-> 400, success |-> FALSE, error |-> "Invalid audio data format",
          message |-> <<>>, hasData |-> FALSE, data |-> <<>>]
    ELSE IF out.kind = "ok"
    THEN [sent |-> TRUE, status |-> 200, success |-> TRUE, error |-> "", message |-> <<>>,
          hasData |-> TRUE, data |-> out.value]
    ELSE IF out.kind = "throw" THEN errorHandler(out.error)
    ELSE NoResponse

----------------------------------------------------------------------------
(* Inputs *)

\* the longest buffer a caller submits
MaxLen == 3

\* the latest reading of the wall clock
MaxClock == 1

\* the longest magnitude spectrum of which every instance is drawn
MaxBins == 4

\* the number of profiles that get created
MaxCreated == 2

\* a finite JSON number beyond the binary32 range, such as 1e39
Big == Raw("big", 1, 1, 0, 0, 1)

\* a JSON string that is no number
Str == Raw("str", 0, 1, 0, 0, 1)

\* the elements of a submitted audioData array
SampleValues == {Num(0), Rat(1, 20), Rat(7, 20), Rat(4, 5), Rat(-4, 5), Big, Str}

JsonArrays == UNION {[1..n -> SampleValues] : n \in 0..MaxLen}

Buffers == {Float32Array(array) : array \in JsonArrays}

Parameters(windowSize, maxAmplitude, minAmplitude, sensitivity) ==
    [defined |-> TRUE, windowSize |-> windowSize, maxAmplitude |-> maxAmplitude,
     minAmplitude |-> minAmplitude, sensitivity |-> sensitivity]

\* a profile object without a parameters property
NoParameters == [Parameters(Undefined, Undefined, Undefined, Undefined) EXCEPT !.defined = FALSE]

Profile(id, type, parameters) == [id |-> id, type |-> type, parameters |-> parameters]

WindowSizes == {Undefined, Rat(1, 10), Rat(1, 5)}

QuietProfiles ==
    {Profile("quiet-profile", "quiet", Parameters(w, m, Undefined, Undefined)) :
        w \in WindowSizes, m \in {Undefined, Num(0), Rat(1, 10), Rat(1, 2), PosInf}}

IntensityProfiles ==
    {Profile("intensity-profile", "intensity", Parameters(w, Undefined, m, Undefined)) :
        w \in WindowSizes, m \in {Undefined, Num(0), Rat(7, 10), Rat(-1, 2), NegInf}}

TransitionProfiles ==
    {Profile("transition-profile", "transition", Parameters(w, Undefined, Undefined, s)) :
        w \in WindowSizes, s \in {Undefined, Num(0), Rat(1, 10)}}

CustomProfiles ==
    {Profile("custom-profile", "custom", Parameters(Rat(1, 10), Rat(1, 2), Num(0), Num(0))),
     Profile("custom-profile", "custom", Parameters(Undefined, Undefined, Undefined, Undefined)),
     Profile("speech-profile", "speech", Parameters(Rat(1, 5), PosInf, NegInf, Num(0)))}

BrokenProfile == Profile("broken-profile", "quiet", NoParameters)

Profiles ==
    QuietProfiles \cup IntensityProfiles \cup TransitionProfiles \cup CustomProfiles \cup {BrokenProfile}

QuietHalf == Profile("quiet-profile", "quiet", Parameters(Rat(1, 10), Rat(1, 2), Undefined, Undefined))

IntensityLow == Profile("intensity-profile", "intensity", Parameters(Rat(1, 10), Undefined, Rat(-1, 2), Undefined))

PairedProfiles == {QuietHalf, IntensityLow, BrokenProfile}

ProfileLists ==
    {<<>>} \cup {<<p>> : p \in Profiles} \cup {<<p, q>> : p \in PairedProfiles, q \in PairedProfiles}

\* the options object {}
EmptyOptions ==
    [isNull |-> FALSE, sampleRate |-> Undefined, threshold |-> Undefined, minDuration |-> Undefined,
     fftSize |-> Undefined, profiles |-> [defined |-> FALSE, list |-> <<>>]]

\* options: null
NullOptions == [EmptyOptions EXCEPT !.isNull = TRUE]

SampleRates == {Undefined, Num(5), Num(10)}

PatternOptions ==
    {NullOptions} \cup
    {[EmptyOptions EXCEPT !.sampleRate = r, !.threshold = t, !.minDuration = m] :
        r \in SampleRates, t \in {Undefined, Num(0), Rat(1, 2), Num(1)}, m \in {Undefined, Rat(1, 5)}}

RegionOptions ==
    {NullOptions} \cup
    {[EmptyOptions EXCEPT !.sampleRate = r] : r \in SampleRates} \cup
    {[EmptyOptions EXCEPT !.sampleRate = r, !.profiles = [defined |-> TRUE, list |-> l]] :
        r \in SampleRates, l \in ProfileLists}

SpectralOptions ==
    {NullOptions} \cup
    {[EmptyOptions EXCEPT !.sampleRate = r, !.fftSize = f] :
        r \in SampleRates, f \in {Undefined, Num(0), Num(1), Num(2)}}

\* the values of a magnitude spectrum
MagnitudeValues == {Num(0), Rat(1, 10), Rat(1, 2), Num(1)}

\* the spectrum of a real tone of magnitude 1 at bin k of N: bins k and N - k
Tone(k, N) == [i \in 1..N |-> IF i - 1 \in {k, N - k} THEN Num(1) ELSE Num(0)]

\* a spectrum of N bins whose first half rises, with its mirror image
Ramp(N) == [i \in 1..N |-> IF 2 * (i - 1) < N THEN Rat(i, N) ELSE Rat(N + 2 - i, N)]

\* a spectrum of N bins that alternates between two magnitudes, with its
\* mirror image
Comb(N) ==
    [i \in 1..N |-> IF (IF 2 * (i - 1) <= N THEN i - 1 ELSE N - i + 1) % 2 = 0
                    THEN Num(1) ELSE Rat(1, 2)]

\* magnitude spectra: every short one, and mirror-symmetric ones of 8 and 16 bins
Spectra ==
    UNION {[1..n -> MagnitudeValues] : n \in 0..MaxBins}
    \cup {Tone(k, 8) : k \in 1..3} \cup {Tone(k, 16) : k \in 1..7}
    \cup {Ramp(16), Comb(16), [i \in 1..16 |-> Num(1)]}

\* sampleRate and fftSize of a spectrum: one hertz per bin, or two, and the
\* rates whose Nyquist frequency is 2000 Hz and 4000 Hz
SpectrumOptions ==
    {[EmptyOptions EXCEPT !.sampleRate = Num(r), !.fftSize = Num(n)] :
        r \in {8, 16, 4000, 8000}, n \in {4, 8, 16}}

AnalyzeOptions ==
    {NullOptions, EmptyOptions, [EmptyOptions EXCEPT !.sampleRate = Num(5)]} \cup
    {[EmptyOptions EXCEPT !.sampleRate = Num(10), !.fftSize = f,
                          !.profiles = [defined |-> TRUE, list |-> l]] :
        f \in {Undefined, Num(2)},
        l \in {<<>>, <<QuietHalf>>, <<QuietHalf, IntensityLow>>, <<BrokenProfile>>, <<QuietHalf, BrokenProfile>>}}

\* the bodies of POST /api/analysis/analyze
AnalyzeBodies ==
    {[isArray |-> FALSE, audioData |-> <<>>, options |-> EmptyOptions]} \cup
    {[isArray |-> TRUE, audioData |-> a, options |-> o] : a \in JsonArrays, o \in AnalyzeOptions}

----------------------------------------------------------------------------
(* The state machine: a caller issues one call at a time; call holds the   *)
(* call in hand and what it did, prev the analysis request before it.      *)

\* the objects of the caller and of the engine once an operation has ended:
\* analyzeSpectral, alone or within analyzeAudio, is the one operation with
\* an assignment to an array element (applyWindow); every other array or
\* object the engine writes is the result it builds
MemoryAfter(op, audioData, options) ==
    IF op \in {"analyzeSpectral", "analyzeAudio"} /\ ~options.isNull
    THEN SpectralMemory(audioData, options)
    ELSE Heap(audioData, options)

NoCall ==
    [op |-> "none", isArray |-> FALSE, audioData |-> <<>>, options |-> EmptyOptions,
     out |-> Diverge(0), response |-> NoResponse, memory |-> Heap(<<>>, EmptyOptions)]

EngineCall(op, audioData, options, out) ==
    [op |-> op, isArray |-> TRUE, audioData |-> audioData, options |-> options,
     out |-> out, response |-> NoResponse, memory |-> MemoryAfter(op, audioData, options)]

\* the controller's analyzeAudio on a request body
Exchange(body, float32Data, out) ==
    [op |-> "analyzeAudio", isArray |-> body.isArray, audioData |-> float32Data,
     options |-> body.options, out |-> out, response |-> AnalyzeResponse(body.isArray, out),
     memory |-> IF body.isArray THEN MemoryAfter("analyzeAudio", float32Data, body.options)
                ELSE Heap(float32Data, body.options)]

AnalyzeData(body, float32Data, uuid0, now) ==
    Exchange(body, float32Data,
             IF body.isArray THEN analyzeAudio(float32Data, body.options, uuid0, now) ELSE Ok(<<>>, 0))

AnalyzeRequest(body, uuid0, now) == AnalyzeData(body, Float32Array(body.audioData), uuid0, now)

\* a profile of the in-memory database
StoredProfile(id, name, description, type, parameters, createdAt, isDefault) ==
    [id |-> id, name |-> name, description |-> description, type |-> type,
     parameters |-> parameters, createdAt |-> createdAt, updatedAt |-> createdAt,
     isDefault |-> isDefault]

\* the profiles the database starts with (of their parameters, those that
\* applyProfile reads); new Date() at start-up is reading 0 of the clock
DefaultProfiles ==
    <<StoredProfile("quiet-profile", "Quiet Section", "Detects periods of low amplitude audio",
                    "quiet", Parameters(Undefined, Rat(1, 10), Undefined, Undefined), 0, TRUE),
      StoredProfile("intensity-profile", "High Intensity", "Detects periods of high amplitude audio",
                    "intensity", Parameters(Undefined, Undefined, Rat(7, 10), Undefined), 0, TRUE),
      StoredProfile("transition-profile", "Transition",
                    "Detects transition periods between quiet and loud",
                    "transition", Parameters(Num(1), Undefined, Undefined, Rat(1, 2)), 0, TRUE)>>

\* the identifiers uuidv4() returns, in the order it returns them
Uuids == <<"uuid-1", "uuid-2", "uuid-3", "uuid-4">>

\* a request and the response sent to it
Exchanged(op, id, status, body) ==
    [req |-> [op |-> op, id |-> id], res |-> [status |-> status, body |-> body]]

NoExchange == Exchanged("none", "", 0, <<>>)

\* what a handler of the profiles controller leaves: the store and the response
Handled(list, op, id, status, body) ==
    [profiles |-> list, http |-> Exchanged(op, id, status, body)]

\* profiles.findIndex(p => p.id === id), counted from 1; 0 for -1
FindIndex(list, id) ==
    IF \E k \in 1..Len(list) : list[k].id = id
    THEN CHOOSE k \in 1..Len(list) :
            /\ list[k].id = id
            /\ \A j \in 1..(k - 1) : list[j].id # id
    ELSE 0

\* profiles.push(newProfile) and the 201
Pushed(list, newProfile) ==
    Handled(Append(list, newProfile), "createProfile", "", 201, [success |-> TRUE, data |-> newProfile])

createProfile(list, body, uuid, now) ==
    IF body.name = "" \/ body.type = "" \/ ~body.parameters.defined
    THEN Handled(list, "createProfile", "", 400,
                 [success |-> FALSE, error |-> "Missing required fields: name, type, parameters"])
    ELSE Pushed(list, StoredProfile(uuid, body.name, body.description, body.type,
                                    body.parameters, now, FALSE))

\* {...profiles[profileIndex], ...updates, updatedAt: new Date()}
Merged(profile, updates, now) ==
    [field \in DOMAIN profile |->
        IF field = "updatedAt" THEN now
        ELSE IF field \in DOMAIN updates THEN updates[field]
        ELSE profile[field]]

\* profiles[profileIndex] = updatedProfile and the 200
Replaced(list, profileIndex, id, updatedProfile) ==
    Handled([list EXCEPT ![profileIndex] = updatedProfile], "updateProfile", id, 200,
            [success |-> TRUE, data |-> updatedProfile])

\* an update that does not look at isDefault: C15 does not hold of it
UpdateUnguarded(list, profileIndex, id, updates, now) ==
    IF profileIndex = 0
    THEN Handled(list, "updateProfile", id, 404, [success |-> FALSE, error |-> "Profile not found"])
    ELSE Replaced(list, profileIndex, id, Merged(list[profileIndex], updates, now))

UpdateAt(list, profileIndex, id, updates, now) ==
    IF profileIndex = 0
    THEN Handled(list, "updateProfile", id, 404, [success |-> FALSE, error |-> "Profile not found"])
    ELSE IF list[profileIndex].isDefault
    THEN Handled(list, "updateProfile", id, 400,
                 [success |-> FALSE, error |-> "Cannot modify default profiles"])
    ELSE Replaced(list, profileIndex, id, Merged(list[profileIndex], updates, now))

updateProfile(list, id, updates, now) == UpdateAt(list, FindIndex(list, id), id, updates, now)

DeleteAt(list, profileIndex, id) ==
    IF profileIndex = 0
    THEN Handled(list, "deleteProfile", id, 404, [success |-> FALSE, error |-> "Profile not found"])
    ELSE IF list[profileIndex].isDefault
    THEN Handled(list, "deleteProfile", id, 400,
                 [success |-> FALSE, error |-> "Cannot delete default profiles"])
    ELSE Handled(SubSeq(list, 1, profileIndex - 1) \o SubSeq(list, profileIndex + 1, Len(list)),
                 "deleteProfile", id, 200,
                 [success |-> TRUE, data |-> [message |-> "Profile deleted successfully"]])

deleteProfile(list, id) == DeleteAt(list, FindIndex(list, id), id)

\* a status that depends on what the store holds: C18 does not hold of it
StatusOfStore(list, now) ==
    Exchanged("getStatus", "", 200,
              [success |-> TRUE,
               data |-> [status |-> IF Len(list) > 3 THEN "busy" ELSE "running",
                         version |-> "1.0.0",
                         timestamp |-> now,
                         capabilities |-> <<"amplitude_analysis", "spectral_analysis",
                                            "pattern_detection", "region_detection">>]])

\* GET /api/analysis/status
getStatus(list, now) ==
    Exchanged("getStatus", "", 200,
              [success |-> TRUE,
               data |-> [status |-> "running",
                         version |-> "1.0.0",
                         timestamp |-> now,
                         capabilities |-> <<"amplitude_analysis", "spectral_analysis",
                                            "pattern_detection", "region_detection">>]])

\* GET /health
health(now) ==
    Exchanged("health", "", 200, [status |-> "healthy", timestamp |-> now, version |-> "1.0.0"])

\* the bodies of POST /api/profiles: each required field present or not
CreateBodies ==
    {[name |-> n, description |-> "", type |-> t, parameters |-> p] :
        n \in {"", "Custom"}, t \in {"", "quiet"},
        p \in {NoParameters, Parameters(Undefined, Rat(1, 2), Undefined, Undefined)}}

\* the bodies of PUT /api/profiles/:id: the fields they set
UpdateBodies ==
    {<<>>,
     [name |-> "Renamed"],
     [id |-> "quiet-profile"],
     [isDefault |-> TRUE],
     [name |-> "Quiet Section", isDefault |-> FALSE]}

\* the :id of a request: a default profile, a created one, or neither
RequestIds ==
    {DefaultProfiles[k].id : k \in 1..Len(DefaultProfiles)}
    \cup {Uuids[k] : k \in 1..MaxCreated}
    \cup {"no-such-profile"}

----------------------------------------------------------------------------
(* The audio store of the frontend (frontend/src/stores/audioStore): of its *)
(* state, the fields the region and region-playback handlers read or write. *)
(* Times are whole seconds.  The wavesurfer instance is the player: it is   *)
(* attached or not, it has a position, and it plays or is paused.           *)

\* the last position of the player
MaxTime == 2

\* the longest list of regions that grows by addRegion
MaxRegions == 2

\* the longest list of selected ids
MaxSelected == 2

\* an AudioRegion: of its fields, those the store reads
AudioRegion(id, start, end) == [id |-> id, start |-> start, end |-> end]

\* the state the store is created with; "" is null
InitialStore ==
    [wavesurfer |-> [attached |-> FALSE, time |-> 0, playing |-> FALSE],
     currentTime |-> 0,
     duration |-> 0,
     error |-> "",
     regionPlayback |-> [isPlaying |-> FALSE, isLooping |-> TRUE, queue |-> <<>>, currentRegionId |-> ""],
     regions |-> <<>>,
     selectedRegions |-> <<>>]

\* selectedRegions.filter(selectedId => selectedId !== id)
RECURSIVE WithoutId(_, _)
WithoutId(ids, id) ==
    IF ids = <<>> THEN <<>>
    ELSE (IF Head(ids) # id THEN <<Head(ids)>> ELSE <<>>) \o WithoutId(Tail(ids), id)

\* regions.filter(region => !removed.includes(region.id))
RECURSIVE WithoutRegions(_, _)
WithoutRegions(list, removed) ==
    IF list = <<>> THEN <<>>
    ELSE (IF Head(list).id \notin removed THEN <<Head(list)>> ELSE <<>>)
         \o WithoutRegions(Tail(list), removed)

\* {...region, ...updates}
Spread(region, updates) ==
    [field \in DOMAIN region |-> IF field \in DOMAIN updates THEN updates[field] ELSE region[field]]

\* wavesurfer?.pause() and isPlaying: false
pauseRegionPlayback(s) ==
    [s EXCEPT !.wavesurfer.playing = FALSE, !.regionPlayback.isPlaying = FALSE]

\* selectedRegions.map(id => regions.find(r => r.id === id)).filter(Boolean)
RECURSIVE FoundRegions(_, _)
FoundRegions(list, ids) ==
    IF ids = <<>> THEN <<>>
    ELSE (IF FindIndex(list, Head(ids)) # 0 THEN <<list[FindIndex(list, Head(ids))]>> ELSE <<>>)
         \o FoundRegions(list, Tail(ids))

\* the place of a region among sorted ones under (a, b) => a.start - b.start:
\* behind every region that does not start later (the sort is stable)
InsertedByStart(ordered, region) ==
    LET behind == Cardinality({k \in 1..Len(ordered) :
                                  \A j \in 1..k : ordered[j].start <= region.start})
    IN SubSeq(ordered, 1, behind) \o <<region>> \o SubSeq(ordered, behind + 1, Len(ordered))

\* .sort((a, b) => a.start - b.start), on the first k regions
RECURSIVE SortByStart(_, _)
SortByStart(list, k) ==
    IF k = 0 THEN <<>> ELSE InsertedByStart(SortByStart(list, k - 1), list[k])

\* sortedSelectedRegions.find(r => currentTime >= r.start && currentTime < r.end), from 1; 0 if none
RegionAtPlayhead(ordered, currentTime) ==
    IF \E k \in 1..Len(ordered) : currentTime >= ordered[k].start /\ currentTime < ordered[k].end
    THEN CHOOSE k \in 1..Len(ordered) :
            /\ currentTime >= ordered[k].start /\ currentTime < ordered[k].end
            /\ \A j \in 1..(k - 1) : ~(currentTime >= ordered[j].start /\ currentTime < ordered[j].end)
    ELSE 0

\* sortedSelectedRegions.find(r => r.start > currentTime), from 1; 0 if none
NextRegion(ordered, currentTime) ==
    IF \E k \in 1..Len(ordered) : ordered[k].start > currentTime
    THEN CHOOSE k \in 1..Len(ordered) :
            /\ ordered[k].start > currentTime
            /\ \A j \in 1..(k - 1) : ordered[j].start <= currentTime
    ELSE 0

\* the region to play: the one at the playhead, else the next one after it,
\* else the first one
RegionToPlay(ordered, currentTime) ==
    IF RegionAtPlayhead(ordered, currentTime) # 0 THEN RegionAtPlayhead(ordered, currentTime)
    ELSE IF NextRegion(ordered, currentTime) # 0 THEN NextRegion(ordered, currentTime)
    ELSE 1

\* the set of regionPlayback, then setTime (if playback was paused or the
\* region has changed) and play
PlayFrom(s, ordered, regionToPlay, startTime) ==
    [s EXCEPT !.regionPlayback = [isPlaying |-> TRUE,
                                  isLooping |-> s.regionPlayback.isLooping,
                                  queue |-> [k \in 1..Len(ordered) |-> ordered[k].id],
                                  currentRegionId |-> regionToPlay.id],
              !.wavesurfer = [attached |-> TRUE,
                              time |-> IF \/ ~s.regionPlayback.isPlaying
                                          \/ s.regionPlayback.currentRegionId # regionToPlay.id
                                       THEN startTime ELSE s.wavesurfer.time,
                              playing |-> TRUE]]

\* playSelectedRegions once the selected regions are sorted; with none of
\* them found, regionToPlay is undefined and reading its start throws
PlaySorted(s, ordered) ==
    IF ordered = <<>> THEN s
    ELSE PlayFrom(s, ordered, ordered[RegionToPlay(ordered, s.currentTime)],
                  IF RegionAtPlayhead(ordered, s.currentTime) # 0 THEN s.currentTime
                  ELSE ordered[RegionToPlay(ordered, s.currentTime)].start)

playSelectedRegions(s) ==
    IF ~s.wavesurfer.attached THEN s
    ELSE IF s.selectedRegions = <<>>
    THEN (IF s.regionPlayback.isPlaying THEN pauseRegionPlayback(s) ELSE s)
    ELSE PlaySorted(s, SortByStart(FoundRegions(s.regions, s.selectedRegions),
                                   Len(FoundRegions(s.regions, s.selectedRegions))))

\* the subscription to selectedRegions: it runs after every set that stores
\* a new selectedRegions array
selectedRegionsListener(s) ==
    IF s.regionPlayback.isPlaying
    THEN (IF s.selectedRegions = <<>> THEN pauseRegionPlayback(s) ELSE playSelectedRegions(s))
    ELSE s

addRegion(s, region) ==
    IF \E k \in 1..Len(s.regions) : s.regions[k].id = region.id THEN s
    ELSE [s EXCEPT !.regions = Append(@, region)]

updateRegion(s, id, updates) ==
    [s EXCEPT !.regions = [k \in 1..Len(s.regions) |->
                              IF s.regions[k].id = id THEN Spread(s.regions[k], updates)
                              ELSE s.regions[k]]]

removeRegion(s, id) ==
    selectedRegionsListener([s EXCEPT !.regions = WithoutRegions(@, {id}),
                                      !.selectedRegions = WithoutId(@, id)])

removeSelectedRegions(s) ==
    selectedRegionsListener(
        [s EXCEPT !.regions = WithoutRegions(@, {s.selectedRegions[k] : k \in 1..Len(s.selectedRegions)}),
                  !.selectedRegions = <<>>])

selectRegion(s, id, selected) ==
    selectedRegionsListener([s EXCEPT !.selectedRegions = IF selected THEN Append(@, id)
                                                          ELSE WithoutId(@, id)])

clearRegions(s) == selectedRegionsListener([s EXCEPT !.regions = <<>>, !.selectedRegions = <<>>])

\* regionsData is the text of a file: JSON.parse throws, or yields the regions
importRegions(s, regionsData) ==
    IF regionsData.parses THEN [s EXCEPT !.regions = regionsData.regions]
    ELSE [s EXCEPT !.error = "Invalid regions data"]

\* loadAudio has no await before its last set: it runs to its end in one turn
loadAudio(s, source) ==
    IF source.source = "" THEN [s EXCEPT !.error = "Invalid audio source"]
    ELSE selectedRegionsListener([s EXCEPT !.error = "",
                                           !.currentTime = 0,
                                           !.duration = source.duration,
                                           !.regions = <<>>,
                                           !.selectedRegions = <<>>])

\* Math.max(0, Math.min(time, duration))
seek(s, time) ==
    [s EXCEPT !.currentTime = IF time < 0 THEN 0 ELSE IF time < s.duration THEN time ELSE s.duration]

toggleLoop(s) == [s EXCEPT !.regionPlayback.isLooping = ~@]

\* a player is created and handed to the store; the subscription to
\* wavesurfer registers the audioprocess handler on it
setWavesurfer(s) == [s EXCEPT !.wavesurfer = [attached |-> TRUE, time |-> 0, playing |-> FALSE]]

\* the end of a region was reached: currentRegionId becomes nextRegionId,
\* then setTime(nextRegion.start) and play; with no region of that id,
\* nextRegion is undefined and reading its start throws after the set
MoveTo(s, nextRegionId) ==
    IF FindIndex(s.regions, nextRegionId) = 0
    THEN [s EXCEPT !.regionPlayback.currentRegionId = nextRegionId]
    ELSE [s EXCEPT !.regionPlayback.currentRegionId = nextRegionId,
                   !.wavesurfer.time = s.regions[FindIndex(s.regions, nextRegionId)].start,
                   !.wavesurfer.playing = TRUE]

\* queue.indexOf(id) + 1: the place of the first occurrence, 0 if none
IndexOf(queue, id) ==
    IF \E k \in 1..Len(queue) : queue[k] = id
    THEN CHOOSE k \in 1..Len(queue) : queue[k] = id /\ \A j \in 1..(k - 1) : queue[j] # id
    ELSE 0

\* the handler of 'audioprocess' once the current region has ended;
\* nextIndex = currentIndex + 1 is counted from 1
AfterRegion(s, queue, nextIndex) ==
    IF nextIndex <= Len(queue) THEN MoveTo(s, queue[nextIndex])
    ELSE IF s.regionPlayback.isLooping THEN MoveTo(s, queue[1])
    ELSE pauseRegionPlayback(s)

\* the handler of 'audioprocess' (the subscription to wavesurfer)
audioprocess(s, currentTime) ==
    IF ~s.regionPlayback.isPlaying \/ s.regionPlayback.currentRegionId = "" THEN s
    ELSE IF FindIndex(s.regions, s.regionPlayback.currentRegionId) = 0 THEN s
    ELSE IF currentTime >= s.regions[FindIndex(s.regions, s.regionPlayback.currentRegionId)].end
    THEN AfterRegion(s, s.regionPlayback.queue,
                     IndexOf(s.regionPlayback.queue, s.regionPlayback.currentRegionId) + 1)
    ELSE s

\* the regions the application adds
AddableRegions == {AudioRegion("a", 0, 1), AudioRegion("b", 1, 2)}

RegionIds == {"a", "b"}

\* the fields an update sets
RegionUpdates == {[id |-> "b"]}

\* the texts given to importRegions, by what JSON.parse makes of them
RegionsData ==
    {[parses |-> FALSE, regions |-> <<>>],
     [parses |-> TRUE, regions |-> <<AudioRegion("b", 1, 2)>>],
     [parses |-> TRUE, regions |-> <<AudioRegion("a", 0, 1), AudioRegion("a", 0, 1)>>]}

\* the sources given to loadAudio
AudioSources == {[source |-> "", duration |-> 0], [source |-> "blob:audio", duration |-> MaxTime]}

----------------------------------------------------------------------------
(* The state machines *)

Init ==
    /\ pc = "idle"
    /\ call = NoCall
    /\ prev = NoCall
    /\ uuidCount = 0
    /\ clock = 0
    /\ db = [profiles |-> DefaultProfiles]
    /\ http = NoExchange
    /\ store = InitialStore

AnalyzeAmplitudeCall ==
    /\ pc = "idle"
    /\ \E audioData \in Buffers :
          call' = EngineCall("analyzeAmplitude", audioData, EmptyOptions,
                             analyzeAmplitude(audioData, EmptyOptions))
    /\ pc' = "done"
    /\ UNCHANGED <<prev, uuidCount, clock, db, http, store>>

DetectPatternsCall ==
    /\ pc = "idle"
    /\ \E audioData \in Buffers, options \in PatternOptions :
          call' = EngineCall("detectPatterns", audioData, options, detectPatterns(audioData, options))
    /\ pc' = "done"
    /\ UNCHANGED <<prev, uuidCount, clock, db, http, store>>

AnalyzeSpectralCall ==
    /\ pc = "idle"
    /\ \E audioData \in Buffers, options \in SpectralOptions :
          call' = EngineCall("analyzeSpectral", audioData, options, analyzeSpectral(audioData, options))
    /\ pc' = "done"
    /\ UNCHANGED <<prev, uuidCount, clock, db, http, store>>

\* the part of analyzeSpectral that follows the FFT, on a magnitude spectrum
SpectralResultsCall ==
    /\ pc = "idle"
    /\ \E magnitudes \in Spectra, options \in SpectrumOptions :
          call' = EngineCall("spectralResults", magnitudes, options,
                             SpectralResults(magnitudes,
                                             Default(options.sampleRate, Num(44100)),
                                             Default(options.fftSize, Num(2048))))
    /\ pc' = "done"
    /\ UNCHANGED <<prev, uuidCount, clock, db, http, store>>

DetectRegionsCall ==
    /\ pc = "idle"
    /\ \E audioData \in Buffers, options \in RegionOptions :
          call' = EngineCall("detectRegions", audioData, options,
                             detectRegions(audioData, options, uuidCount))
    /\ uuidCount' = uuidCount + call'.out.uuids
    /\ pc' = "done"
    /\ UNCHANGED <<prev, clock, db, http, store>>

PostAnalyze ==
    /\ pc = "idle"
    /\ \E body \in AnalyzeBodies, now \in clock..MaxClock :
          /\ call' = AnalyzeRequest(body, uuidCount, now)
          /\ clock' = now
    /\ uuidCount' = uuidCount + call'.out.uuids
    /\ pc' = "done"
    /\ UNCHANGED <<prev, db, http, store>>

\* the caller submits the request it has just made once more
RepeatAnalyze ==
    /\ pc = "done"
    /\ call.op = "analyzeAudio"
    /\ call.isArray
    /\ prev.op = "none"
    /\ \E now \in clock..MaxClock :
          /\ call' = Exchange(call, call.audioData,
                               analyzeAudio(call.audioData, call.options, uuidCount, now))
          /\ clock' = now
    /\ uuidCount' = uuidCount + call'.out.uuids
    /\ prev' = call
    /\ UNCHANGED <<pc, db, http, store>>

\* the caller drops what it holds.  Identifiers and timestamps are only ever
\* compared with each other, so both sources start over.
Return ==
    /\ pc = "done"
    /\ pc' = "idle"
    /\ call' = NoCall
    /\ prev' = NoCall
    /\ uuidCount' = 0
    /\ clock' = 0
    /\ UNCHANGED <<db, http, store>>

Next ==
    \/ AnalyzeAmplitudeCall
    \/ AnalyzeSpectralCall
    \/ SpectralResultsCall
    \/ DetectPatternsCall
    \/ DetectRegionsCall
    \/ PostAnalyze
    \/ RepeatAnalyze
    \/ Return

Spec == Init /\ [][Next]_vars

----------------------------------------------------------------------------
(* The server: the profiles controller on the in-memory database, and the  *)
(* two status handlers                                                     *)

CreateProfile ==
    /\ uuidCount < MaxCreated
    /\ \E body \in CreateBodies, now \in clock..MaxClock :
          /\ db' = [db EXCEPT !.profiles =
                        createProfile(db.profiles, body, Uuids[uuidCount + 1], now).profiles]
          /\ http' = createProfile(db.profiles, body, Uuids[uuidCount + 1], now).http
          /\ clock' = now
    /\ uuidCount' = IF http'.res.status = 201 THEN uuidCount + 1 ELSE uuidCount
    /\ UNCHANGED <<pc, call, prev, store>>

UpdateProfile ==
    /\ \E id \in RequestIds, updates \in UpdateBodies, now \in clock..MaxClock :
          /\ db' = [db EXCEPT !.profiles = updateProfile(db.profiles, id, updates, now).profiles]
          /\ http' = updateProfile(db.profiles, id, updates, now).http
          /\ clock' = IF http'.res.status = 200 THEN now ELSE clock
    /\ UNCHANGED <<pc, call, prev, uuidCount, store>>

DeleteProfile ==
    /\ \E id \in RequestIds :
          /\ db' = [db EXCEPT !.profiles = deleteProfile(db.profiles, id).profiles]
          /\ http' = deleteProfile(db.profiles, id).http
    /\ UNCHANGED <<pc, call, prev, uuidCount, clock, store>>

GetStatus ==
    /\ \E now \in clock..MaxClock :
          /\ http' = getStatus(db.profiles, now)
          /\ clock' = now
    /\ UNCHANGED <<pc, call, prev, uuidCount, db, store>>

GetHealth ==
    /\ \E now \in clock..MaxClock :
          /\ http' = health(now)
          /\ clock' = now
    /\ UNCHANGED <<pc, call, prev, uuidCount, db, store>>

ServerNext ==
    \/ CreateProfile
    \/ UpdateProfile
    \/ DeleteProfile
    \/ GetStatus
    \/ GetHealth

ServerSpec == Init /\ [][ServerNext]_vars

----------------------------------------------------------------------------
(* The audio store: one action per handler, the listeners it triggers      *)
(* included.                                                               *)

AddRegion ==
    /\ Len(store.regions) < MaxRegions
    /\ \E region \in AddableRegions : store' = addRegion(store, region)
    /\ UNCHANGED <<pc, call, prev, uuidCount, clock, db, http>>

UpdateRegion ==
    /\ \E id \in RegionIds, updates \in RegionUpdates : store' = updateRegion(store, id, updates)
    /\ UNCHANGED <<pc, call, prev, uuidCount, clock, db, http>>

RemoveRegion ==
    /\ \E id \in RegionIds : store' = removeRegion(store, id)
    /\ UNCHANGED <<pc, call, prev, uuidCount, clock, db, http>>

RemoveSelectedRegions ==
    /\ store' = removeSelectedRegions(store)
    /\ UNCHANGED <<pc, call, prev, uuidCount, clock, db, http>>

SelectRegion ==
    /\ \E id \in RegionIds, selected \in BOOLEAN :
          /\ selected => Len(store.selectedRegions) < MaxSelected
          /\ store' = selectRegion(store, id, selected)
    /\ UNCHANGED <<pc, call, prev, uuidCount, clock, db, http>>

ClearRegions ==
    /\ store' = clearRegions(store)
    /\ UNCHANGED <<pc, call, prev, uuidCount, clock, db, http>>

ImportRegions ==
    /\ \E regionsData \in RegionsData : store' = importRegions(store, regionsData)
    /\ UNCHANGED <<pc, call, prev, uuidCount, clock, db, http>>

LoadAudio ==
    /\ \E source \in AudioSources : store' = loadAudio(store, source)
    /\ UNCHANGED <<pc, call, prev, uuidCount, clock, db, http>>

SetWavesurfer ==
    /\ ~store.wavesurfer.attached
    /\ store' = setWavesurfer(store)
    /\ UNCHANGED <<pc, call, prev, uuidCount, clock, db, http>>

Seek ==
    /\ \E time \in 0..MaxTime : store' = seek(store, time)
    /\ UNCHANGED <<pc, call, prev, uuidCount, clock, db, http>>

PlaySelectedRegions ==
    /\ store' = playSelectedRegions(store)
    /\ UNCHANGED <<pc, call, prev, uuidCount, clock, db, http>>

PauseRegionPlayback ==
    /\ store' = pauseRegionPlayback(store)
    /\ UNCHANGED <<pc, call, prev, uuidCount, clock, db, http>>

ToggleLoop ==
    /\ store' = toggleLoop(store)
    /\ UNCHANGED <<pc, call, prev, uuidCount, clock, db, http>>

\* the player, playing, moves on to a position and emits 'audioprocess'
AudioProcess ==
    /\ store.wavesurfer.attached
    /\ store.wavesurfer.playing
    /\ \E currentTime \in store.wavesurfer.time..MaxTime :
          store' = audioprocess([store EXCEPT !.wavesurfer.time = currentTime], currentTime)
    /\ UNCHANGED <<pc, call, prev, uuidCount, clock, db, http>>

StoreNext ==
    \/ AddRegion
    \/ UpdateRegion
    \/ RemoveRegion
    \/ RemoveSelectedRegions
    \/ SelectRegion
    \/ ClearRegions
    \/ ImportRegions
    \/ LoadAudio
    \/ SetWavesurfer
    \/ Seek
    \/ PlaySelectedRegions
    \/ PauseRegionPlayback
    \/ ToggleLoop
    \/ AudioProcess

StoreSpec == Init /\ [][StoreNext]_vars

----------------------------------------------------------------------------
(* Claims.  Each is stated on the call the caller holds once it is done.   *)

Done(op) == pc = "done" /\ call.op = op

AllZero(audioData) == \A i \in 1..Len(audioData) : audioData[i] = Num(0)

HasNonFinite(audioData) == \E i \in 1..Len(audioData) : ~IsFin(audioData[i])

ConstantMagnitude(audioData) ==
    \A i, j \in 1..Len(audioData) : MathAbs(audioData[i]) = MathAbs(audioData[j])

\* windowSize = floor(minDuration * sampleRate) of a detectPatterns call
PatternWindow(options) ==
    Samples(MathFloor(Mul(Default(options.minDuration, Rat(1, 10)),
                          OrElse(options.sampleRate, Num(44100)))))

\* the k-th of the windows that partition a buffer, as a quiet section
QuietWindow(k, windowSize, sampleRate) ==
    [start |-> Div(Num((k - 1) * windowSize), sampleRate),
     end |-> Div(Num(k * windowSize), sampleRate),
     rms |-> Num(0)]

\* C1: for an all-zero buffer whose length is k whole windows (k >= 1) and a
\* positive threshold, detectPatterns returns k quiet sections, one per window,
\* that cover [0, duration), and no loud section and no transition
C1_SilentBufferAllQuiet ==
    LET options == call.options
        audioData == call.audioData
        windowSize == PatternWindow(options)
        sampleRate == OrElse(options.sampleRate, Num(44100))
    IN (/\ Done("detectPatterns")
        /\ ~options.isNull
        /\ Gt(Default(options.threshold, Rat(1, 10)), Num(0))
        /\ AllZero(audioData)
        /\ Len(audioData) > 0
        /\ windowSize > 0
        /\ Len(audioData) % windowSize = 0)
       => /\ call.out.kind = "ok"
          /\ call.out.value.quietSections =
                [k \in 1..(Len(audioData) \div windowSize) |-> QuietWindow(k, windowSize, sampleRate)]
          /\ call.out.value.loudSections = <<>>
          /\ call.out.value.transitions = <<>>

\* C6: analyzeAmplitude on a zero-length window fails with an EmptyWindow
\* error and returns no descriptor
C6_EmptyWindowRejected ==
    (Done("analyzeAmplitude") /\ Len(call.audioData) = 0)
    => (call.out.kind = "throw" /\ call.out.error.name = "EmptyWindow")

\* the fields of an amplitude descriptor
DescriptorFields(d) == {d.average, d.rms, d.peak, d.dynamicRange, d.crestFactor, Num(d.zeroCrossings)}

\* C7: analyzeAmplitude fails with NonFiniteSample when a sample is NaN or
\* infinite, and the descriptor it returns for a non-empty window has every
\* field finite and >= 0
C7_NonFiniteRejected ==
    Done("analyzeAmplitude")
    => /\ HasNonFinite(call.audioData)
          => (call.out.kind = "throw" /\ call.out.error.name = "NonFiniteSample")
       /\ (call.out.kind = "ok" /\ Len(call.audioData) > 0)
          => \A field \in DescriptorFields(call.out.value) : FiniteNonNeg(field)

ReturnedRegions ==
    IF pc # "done" \/ call.out.kind # "ok" THEN <<>>
    ELSE IF call.op = "detectRegions" THEN call.out.value
    ELSE IF call.op = "analyzeAudio" /\ call.isArray THEN call.out.value.analysis.regions
    ELSE <<>>

\* C2: every region that applyProfile / detectRegions emits has
\* 0 <= confidence <= 1 and start < end
C2_RegionsWellFormed ==
    \A k \in 1..Len(ReturnedRegions) :
        /\ Le(Num(0), ReturnedRegions[k].confidence)
        /\ Le(ReturnedRegions[k].confidence, Num(1))
        /\ Lt(ReturnedRegions[k].start, ReturnedRegions[k].end)

\* a region without its identifier
Unidentified(region) ==
    [start |-> region.start, end |-> region.end, profile |-> region.profile,
     confidence |-> region.confidence, data |-> region.data]

\* the caller holds two analyzeAudio calls on one buffer with one options object
Repeated == pc = "done" /\ prev.op = "analyzeAudio" /\ call.op = "analyzeAudio"

CallSubs == SubAnalyses(call.audioData, call.options, 0)

\* the sub-analysis of the call in hand that threw, all before it having returned
Failed == CallSubs[FirstStop(CallSubs)]

SubAnalysisThrew ==
    /\ Done("analyzeAudio")
    /\ call.isArray
    /\ FirstStop(CallSubs) # 0
    /\ Failed.kind = "throw"

C5_AllOrNothing ==
    (/\ Done("analyzeAudio")
     /\ call.isArray
     /\ \E k \in 1..4 : CallSubs[k].kind = "throw")
    => /\ call.out.kind # "ok"
       /\ ~call.response.hasData
       /\ ~call.response.success
       /\ call.response.data = <<>>
       /\ call.out.kind = "throw" => (call.response.sent /\ call.response.status = 500)

\* C5 witness: the amplitude, spectral and patterns analyses returned,
\* detectRegions threw, and the response is a 500 without data
C5_RegionsThrewLast ==
    /\ Done("analyzeAudio")
    /\ call.isArray
    /\ \A k \in 1..3 : CallSubs[k].kind = "ok"
    /\ CallSubs[4].kind = "throw"
    /\ call.out.kind = "throw"
    /\ call.response.sent
    /\ call.response.status = 500
    /\ ~call.response.hasData

\* the only profile of a detectRegions call
OnlyProfile == call.options.profiles.list[1]

\* windowSize of applyProfile for the only profile
ProfileWindow ==
    Samples(MathFloor(Mul(OrElse(OnlyProfile.parameters.windowSize, Num(1)),
                          Default(call.options.sampleRate, Num(44100)))))

\* a detectRegions call with one profile of the given type has returned
OneProfileDone(type) ==
    /\ Done("detectRegions")
    /\ ~call.options.isNull
    /\ call.options.profiles.defined
    /\ Len(call.options.profiles.list) = 1
    /\ OnlyProfile.type = type
    /\ OnlyProfile.parameters.defined
    /\ call.out.kind = "ok"
    /\ ProfileWindow > 0

\* the offsets of the windows applyProfile evaluates
EvaluatedWindows ==
    {i \in 0..Len(call.audioData) : i % ProfileWindow = 0 /\ i < Len(call.audioData) - ProfileWindow}

WindowRms(i) == calculateRMS(Slice(call.audioData, i, i + ProfileWindow))

\* the regions emitted for the window at offset i
EmittedAt(i) ==
    {k \in 1..Len(call.out.value) :
        call.out.value[k].start = Div(Num(i), Default(call.options.sampleRate, Num(44100)))}

\* clamp(x, 0, 1)
Clamp(x) == IF Lt(x, Num(0)) THEN Num(0) ELSE IF Gt(x, Num(1)) THEN Num(1) ELSE x

\* C9: for a Quiet profile with a numeric maxAmplitude (0 included), a region
\* is emitted for an evaluated window iff its rms < maxAmplitude, and its
\* confidence is clamp(1 - rms / maxAmplitude, 0, 1)
C9_QuietRule ==
    (OneProfileDone("quiet") /\ IsFin(OnlyProfile.parameters.maxAmplitude))
    => \A i \in EvaluatedWindows :
          /\ (EmittedAt(i) # {}) <=> Lt(WindowRms(i), OnlyProfile.parameters.maxAmplitude)
          /\ \A k \in EmittedAt(i) :
                call.out.value[k].confidence
                    = Clamp(Sub(Num(1), Div(WindowRms(i), OnlyProfile.parameters.maxAmplitude)))

\* C10: for an Intensity profile with a numeric minAmplitude (0 included), a
\* region is emitted for an evaluated window iff its rms > minAmplitude, and
\* its confidence is clamp(rms / minAmplitude, 0, 1)
C10_IntensityRule ==
    (OneProfileDone("intensity") /\ IsFin(OnlyProfile.parameters.minAmplitude))
    => \A i \in EvaluatedWindows :
          /\ (EmittedAt(i) # {}) <=> Gt(WindowRms(i), OnlyProfile.parameters.minAmplitude)
          /\ \A k \in EmittedAt(i) :
                call.out.value[k].confidence
                    = Clamp(Div(WindowRms(i), OnlyProfile.parameters.minAmplitude))

\* x >= 0 read off the value itself: NaN is not, a zero is
NonNegative(x) == (x.k = "inf" /\ x.n > 0) \/ (x.k = "fin" /\ Sign(x) >= 0)

\* the indices at which the sign of a window changes
SignChanges(audioData) ==
    {i \in 2..Len(audioData) : NonNegative(audioData[i]) # NonNegative(audioData[i - 1])}

\* C16: zeroCrossings of analyzeAmplitude is the number of indices i >= 1
\* with (x[i] >= 0) different from (x[i-1] >= 0), a sample of 0 counting as
\* non-negative; it is 0 for a window whose samples are all >= 0 or all < 0
C16_ZeroCrossingsCount ==
    Done("analyzeAmplitude")
    => /\ call.out.kind = "ok"
       /\ call.out.value.zeroCrossings = Cardinality(SignChanges(call.audioData))
       /\ ((\A i \in 1..Len(call.audioData) : Ge(call.audioData[i], Num(0)))
           \/ (\A i \in 1..Len(call.audioData) : Lt(call.audioData[i], Num(0))))
          => call.out.value.zeroCrossings = 0

\* C16 witness: a window of three samples with a zero next to a positive
\* sample (no crossing) and a negative sample (one crossing)
C16_ZeroBesidePositive ==
    /\ Done("analyzeAmplitude")
    /\ Len(call.audioData) = 3
    /\ call.audioData[2] = Num(0)
    /\ Gt(call.audioData[1], Num(0))
    /\ Lt(call.audioData[3], Num(0))
    /\ call.out.value.zeroCrossings = 1

\* C17: for a non-empty window whose samples are all 0, analyzeAmplitude
\* returns rms, peak, average, dynamicRange, crestFactor and zeroCrossings 0
C17_SilentWindowAllZero ==
    (Done("analyzeAmplitude") /\ Len(call.audioData) > 0 /\ AllZero(call.audioData))
    => /\ call.out.kind = "ok"
       /\ call.out.value.rms = Num(0)
       /\ call.out.value.peak = Num(0)
       /\ call.out.value.average = Num(0)
       /\ call.out.value.dynamicRange = Num(0)
       /\ call.out.value.crestFactor = Num(0)
       /\ call.out.value.zeroCrossings = 0

\* C17 witness: a silent window of two or more samples has been analysed
C17_SilentWindowAnalysed ==
    /\ Done("analyzeAmplitude")
    /\ Len(call.audioData) >= 2
    /\ AllZero(call.audioData)
    /\ call.out.kind = "ok"
    /\ call.out.value.crestFactor = Num(0)

\* the profiles a detectRegions call iterates over
GivenProfiles ==
    IF call.options.profiles.defined THEN call.options.profiles.list ELSE <<>>

\* the regions of profiles p.. each applied on its own, identifiers left out
RECURSIVE RegionsFrom(_)
RegionsFrom(p) ==
    IF p > Len(GivenProfiles) THEN <<>>
    ELSE LET own == applyProfile(call.audioData, GivenProfiles[p],
                                 Default(call.options.sampleRate, Num(44100)), 0).value
         IN [k \in 1..Len(own) |-> Unidentified(own[k])] \o RegionsFrom(p + 1)

CompleteWindows ==
    {i \in 0..Len(call.audioData) : i % ProfileWindow = 0 /\ i + ProfileWindow <= Len(call.audioData)}

\* the window at offset i satisfies the predicate of the only profile
WindowMatches(i) ==
    ProfileMatches(Slice(call.audioData, i, i + ProfileWindow),
                   AmplitudeResults(Slice(call.audioData, i, i + ProfileWindow)),
                   OnlyProfile)

\* C20: when every complete window of the buffer satisfies the profile's
\* predicate, applyProfile yields floor(L / W) regions, the k-th spanning
\* the k-th window: consecutive, starting at 0
C20_EveryCompleteWindow ==
    (/\ OneProfileDone(OnlyProfile.type)
     /\ ~HasNonFinite(call.audioData)
     /\ \A i \in CompleteWindows : WindowMatches(i))
    => /\ Len(call.out.value) = Len(call.audioData) \div ProfileWindow
       /\ \A k \in 1..Len(call.out.value) :
             /\ call.out.value[k].start =
                   Div(Num((k - 1) * ProfileWindow), Default(call.options.sampleRate, Num(44100)))
             /\ call.out.value[k].end =
                   Div(Num(k * ProfileWindow), Default(call.options.sampleRate, Num(44100)))

\* the sample rate and the window durations of a call are positive numbers
PositiveDurations ==
    /\ ~call.options.isNull
    /\ ~HasNonFinite(call.audioData)
    /\ IF call.op = "detectPatterns"
       THEN /\ Gt(OrElse(call.options.sampleRate, Num(44100)), Num(0))
            /\ Gt(Default(call.options.minDuration, Rat(1, 10)), Num(0))
       ELSE /\ Gt(Default(call.options.sampleRate, Num(44100)), Num(0))
            /\ \A p \in 1..Len(GivenProfiles) :
                  /\ GivenProfiles[p].parameters.defined
                  /\ Gt(OrElse(GivenProfiles[p].parameters.windowSize, Num(1)), Num(0))

\* C19: detectPatterns (with its detectTransitions) and detectRegions (with
\* its applyProfile) come to an end, by a return or a throw, for every finite
\* buffer, positive sample rate and positive window duration
C19_WindowedLoopsTerminate ==
    (pc = "done" /\ call.op \in {"detectPatterns", "detectRegions"} /\ PositiveDurations)
    => call.out.kind # "diverge"

\* the operations of the analysis engine
EngineOperations ==
    {"analyzeAmplitude", "analyzeSpectral", "detectPatterns", "detectRegions", "analyzeAudio"}

\* C14: when an engine operation has ended, by a return or by a failure, the
\* buffer and the options (with the profile objects in them) the caller
\* passed hold what they held at the call
C14_CallerObjectsUntouched ==
    (pc = "done" /\ call.op \in EngineOperations /\ call.isArray)
    => /\ call.memory.audioData = call.audioData
       /\ call.memory.options = call.options

\* C14 witness: analyzeSpectral failed in the FFT after applyWindow had
\* written the windowed samples of a 3-sample buffer
C14_WindowedThenFailed ==
    /\ Done("analyzeSpectral")
    /\ call.out.kind = "throw"
    /\ Len(call.audioData) = 3
    /\ Len(call.memory.windowed) = 3
    /\ call.memory.windowed # call.memory.block
    /\ call.memory.block = call.audioData

\* the dominant frequencies returned for a magnitude spectrum
Dominant == call.out.value.dominantFrequencies

\* C12: findDominantFrequencies returns at most 5 entries, each of a
\* magnitude strictly greater than that of the next
C12_StrictlyDescending ==
    (Done("spectralResults") /\ call.out.kind = "ok")
    => /\ Len(Dominant) <= 5
       /\ \A k \in 1..(Len(Dominant) - 1) : Gt(Dominant[k].magnitude, Dominant[k + 1].magnitude)

\* C12 amended: findDominantFrequencies returns at most 5 entries, none of a
\* magnitude below that of the next, and entries of one magnitude in the
\* order of their frequencies
C12_NonIncreasing ==
    (Done("spectralResults") /\ call.out.kind = "ok")
    => /\ Len(Dominant) <= 5
       /\ \A k \in 1..(Len(Dominant) - 1) :
             /\ Ge(Dominant[k].magnitude, Dominant[k + 1].magnitude)
             /\ Dominant[k].magnitude = Dominant[k + 1].magnitude
                => Lt(Dominant[k].frequency, Dominant[k + 1].frequency)

\* C12 witness: five entries were returned out of more candidates, the
\* first two of one magnitude
C12_EqualMagnitudesReturned ==
    /\ Done("spectralResults")
    /\ call.out.kind = "ok"
    /\ Len(call.audioData) = 16
    /\ Len(Dominant) = 5
    /\ Dominant[1].magnitude = Dominant[2].magnitude
    /\ Gt(Dominant[2].magnitude, Dominant[5].magnitude)

\* the tones whose spectra are drawn: bin k of N, below the Nyquist bin
ToneBins == {t \in (1..7) \X {8, 16} : 2 * t[1] < t[2]}

\* C11: for the mirror-symmetric spectrum of a pure tone, with fftSize the
\* length of the spectrum, spectralCentroid lies within one bin width,
\* sampleRate / fftSize, of the frequency of the tone
C11_ToneCentroid ==
    \A t \in ToneBins :
        (/\ Done("spectralResults")
         /\ call.audioData = Tone(t[1], t[2])
         /\ call.options.fftSize = Num(t[2]))
        => Le(MathAbs(Sub(call.out.value.spectralCentroid,
                          Div(Mul(Num(t[1]), call.options.sampleRate), call.options.fftSize))),
              Div(call.options.sampleRate, call.options.fftSize))

\* the identifiers of the default profiles
DefaultIds == {DefaultProfiles[k].id : k \in 1..Len(DefaultProfiles)}

\* the response in hand is to an update or a delete of a default profile
OnDefault(exchange) ==
    exchange.req.op \in {"updateProfile", "deleteProfile"} /\ exchange.req.id \in DefaultIds

\* C15: whatever create, update and delete requests were made, the three
\* default profiles are in the store with every field as at start-up; an
\* update or delete of one of them is answered with status 400, and the
\* step that handles it leaves the store as it was
C15_DefaultsProtected ==
    /\ [](/\ Len(db.profiles) >= Len(DefaultProfiles)
          /\ \A k \in 1..Len(DefaultProfiles) : db.profiles[k] = DefaultProfiles[k]
          /\ OnDefault(http) => http.res.status = 400)
    /\ [][OnDefault(http') => db' = db]_vars

\* C15 witness: a profile was created and renamed, and then an update of a
\* default profile was rejected
C15_DefaultUpdateRejected ==
    /\ http.req.op = "updateProfile"
    /\ http.req.id = "quiet-profile"
    /\ http.res.status = 400
    /\ Len(db.profiles) = 4
    /\ db.profiles[4].name = "Renamed"
    /\ db.profiles[4].updatedAt > db.profiles[4].createdAt

----------------------------------------------------------------------------
(* Claims on detectPatterns and detectTransitions *)

\* the 100 ms window of detectTransitions, in samples
TransitionWindow ==
    Samples(MathFloor(Mul(Rat(1, 10), OrElse(call.options.sampleRate, Num(44100)))))

\* the offsets of the boundaries between two consecutive complete 100 ms windows
WindowBoundaries ==
    {i \in 1..Len(call.audioData) :
        i % TransitionWindow = 0 /\ i + TransitionWindow <= Len(call.audioData)}

RmsBefore(i) == calculateRMS(Slice(call.audioData, i - TransitionWindow, i))

RmsAfter(i) == calculateRMS(Slice(call.audioData, i, i + TransitionWindow))

\* the transitions emitted for the boundary at offset i
EventsAt(i) ==
    {k \in 1..Len(call.out.value.transitions) :
        call.out.value.transitions[k].time =
            Div(Num(i), OrElse(call.options.sampleRate, Num(44100)))}

\* a detectPatterns call has returned its patterns, the 100 ms window not empty
PatternsDone ==
    /\ Done("detectPatterns")
    /\ ~call.options.isNull
    /\ call.out.kind = "ok"

\* C21: detectTransitions examines every boundary between two consecutive
\* complete 100 ms windows, the one before the last complete window included:
\* an event is emitted iff |rms(after) - rms(before)| > threshold, at time
\* offset / sampleRate, 'increasing' when after > before and 'decreasing'
\* otherwise, and the emitted times strictly increase
C21_EveryBoundaryExamined ==
    (PatternsDone /\ TransitionWindow > 0)
    => /\ \A i \in WindowBoundaries :
             /\ EventsAt(i) # {}
                  <=> Gt(MathAbs(Sub(RmsAfter(i), RmsBefore(i))),
                         Default(call.options.threshold, Rat(1, 10)))
             /\ \A k \in EventsAt(i) :
                   call.out.value.transitions[k].direction =
                      IF Gt(RmsAfter(i), RmsBefore(i)) THEN "increasing" ELSE "decreasing"
       /\ \A k \in 1..(Len(call.out.value.transitions) - 1) :
             Lt(call.out.value.transitions[k].time, call.out.value.transitions[k + 1].time)

\* the offsets of the windows detectPatterns evaluates
PatternWindows ==
    {i \in 0..Len(call.audioData) :
        i % PatternWindow(call.options) = 0
        /\ i < Len(call.audioData) - PatternWindow(call.options)}

PatternRms(i) == calculateRMS(Slice(call.audioData, i, i + PatternWindow(call.options)))

\* the section of the window at offset i is in the list
SectionIn(list, i) ==
    \E k \in 1..Len(list) :
        list[k].start = Div(Num(i), OrElse(call.options.sampleRate, Num(44100)))

\* C22: the loud classification of detectPatterns does not depend on
\* threshold: every evaluated window with rms > 0.7 is in loudSections and
\* every evaluated window with rms < threshold is in quietSections
C22_LoudIndependentOfThreshold ==
    (PatternsDone /\ PatternWindow(call.options) > 0)
    => \A i \in PatternWindows :
          /\ Gt(PatternRms(i), Rat(7, 10)) => SectionIn(call.out.value.loudSections, i)
          /\ Lt(PatternRms(i), Default(call.options.threshold, Rat(1, 10)))
                => SectionIn(call.out.value.quietSections, i)

----------------------------------------------------------------------------
(* Claims on the frequency bands and the dominant frequencies *)

\* the energy of the bins k, k + 1, ... below half the spectrum that lie in [lo, hi)
RECURSIVE BinEnergy(_, _, _, _)
BinEnergy(magnitudes, lo, hi, k) ==
    IF 2 * k < Len(magnitudes)
    THEN Add(IF Le(lo, Num(k)) /\ Lt(Num(k), hi)
             THEN Mul(magnitudes[k + 1], magnitudes[k + 1]) ELSE Num(0),
             BinEnergy(magnitudes, lo, hi, k + 1))
    ELSE Num(0)

\* a spectrum of fftSize bins, fftSize a power of two, has been analysed
FullSpectrumDone ==
    /\ Done("spectralResults")
    /\ call.out.kind = "ok"
    /\ IsPowerOfTwo(Len(call.audioData))
    /\ call.options.fftSize = Num(Len(call.audioData))

BassEnd == MathFloor(Div(Mul(call.options.fftSize, Num(250)), call.options.sampleRate))

MidEnd == MathFloor(Div(Mul(call.options.fftSize, Num(4000)), call.options.sampleRate))

\* C23: for every sampleRate > 0 and power-of-two fftSize the three band
\* energies partition the bins below Nyquist: each bin k in [0, fftSize / 2)
\* adds its squared magnitude to exactly one of bass (below bassEnd), mid and
\* treble (from midEnd), and no bin at or above fftSize / 2 adds to any band
C23_BandsPartitionBins ==
    FullSpectrumDone
    => /\ call.out.value.frequencyBands.bass = BinEnergy(call.audioData, Num(0), BassEnd, 0)
       /\ call.out.value.frequencyBands.mid = BinEnergy(call.audioData, BassEnd, MidEnd, 0)
       /\ call.out.value.frequencyBands.treble = BinEnergy(call.audioData, MidEnd, PosInf, 0)

\* the bins of the first half of a spectrum: k < N / 2
FirstHalf(magnitudes) == {k \in 0..Len(magnitudes) : 2 * k < Len(magnitudes)}

\* 10% of the largest magnitude among the first half of the bins
HalfThreshold(magnitudes) ==
    Mul(MaxOf(magnitudes, Cardinality(FirstHalf(magnitudes))), Rat(1, 10))

\* the bins of the first half above that threshold
AboveHalfThreshold(magnitudes) ==
    {k \in FirstHalf(magnitudes) : Gt(magnitudes[k + 1], HalfThreshold(magnitudes))}

\* C24: findDominantFrequencies takes as threshold 10% of the largest
\* magnitude among the bins k < N / 2 only and returns the top 5 of exactly
\* those bins k < N / 2 above it: the bins k >= N / 2 influence neither
C24_FirstHalfOnly ==
    (Done("spectralResults") /\ call.out.kind = "ok")
    => /\ Len(Dominant) =
             IF Cardinality(AboveHalfThreshold(call.audioData)) < 5
             THEN Cardinality(AboveHalfThreshold(call.audioData)) ELSE 5
       /\ \A e \in 1..Len(Dominant) :
             \E k \in AboveHalfThreshold(call.audioData) :
                 /\ Dominant[e].magnitude = call.audioData[k + 1]
                 /\ Dominant[e].frequency =
                       Div(Mul(Num(k), call.options.sampleRate), call.options.fftSize)

\* C25: analyzeSpectral never truncates silently: given fewer than fftSize
\* samples it pads the block to fftSize or fails, and returns no descriptor
\* computed from a block shorter than fftSize
C25_NoSilentTruncation ==
    (/\ Done("analyzeSpectral")
     /\ ~call.options.isNull
     /\ Lt(Num(Len(call.audioData)), Default(call.options.fftSize, Num(2048))))
    => \/ call.out.kind # "ok"
       \/ Num(Len(call.memory.block)) = Default(call.options.fftSize, Num(2048))

----------------------------------------------------------------------------
(* Claims on the Transition and Custom profiles *)

\* C26: for a Transition profile with a numeric sensitivity, an evaluated
\* window yields a region iff the population variance of its raw signed
\* samples exceeds the sensitivity, and every such region has confidence 0.5
C26_TransitionRule ==
    (OneProfileDone("transition") /\ IsFin(OnlyProfile.parameters.sensitivity))
    => \A i \in EvaluatedWindows :
          /\ (EmittedAt(i) # {})
                <=> Gt(calculateVariance(Slice(call.audioData, i, i + ProfileWindow)),
                       OnlyProfile.parameters.sensitivity)
          /\ \A k \in EmittedAt(i) : call.out.value[k].confidence = Rat(1, 2)

\* a detectRegions call with one profile that is neither quiet, intensity
\* nor transition, and that has a parameter map
CustomDone ==
    /\ Done("detectRegions")
    /\ ~call.options.isNull
    /\ call.options.profiles.defined
    /\ Len(call.options.profiles.list) = 1
    /\ OnlyProfile.type \notin {"quiet", "intensity", "transition"}
    /\ OnlyProfile.parameters.defined

\* C27: a Custom profile, and any profile whose type is not quiet, intensity
\* or transition, never produces a region: applyProfile returns an empty
\* list for every buffer and every parameter map
C27_CustomNeverMatches ==
    CustomDone => (call.out.kind = "ok" /\ call.out.value = <<>>)

----------------------------------------------------------------------------
(* Claims on the profile store *)

\* C28: in every reachable state of the store the profiles with isDefault =
\* true are exactly the three preloaded ones, and no other profile has the
\* id of one of them: a profile a client created can still be updated and
\* deleted
C28_DefaultsExclusive ==
    \A k \in 1..Len(db.profiles) :
        /\ db.profiles[k].isDefault <=> k <= Len(DefaultProfiles)
        /\ k <= Len(DefaultProfiles) => db.profiles[k].id = DefaultProfiles[k].id
        /\ k > Len(DefaultProfiles) => db.profiles[k].id \notin DefaultIds

----------------------------------------------------------------------------
(* Claims on the audio store *)

\* the region of the store with the given id (the first one)
RegionOf(s, id) == s.regions[FindIndex(s.regions, id)]

\* the region in hand is present and the player, at position currentTime, has
\* reached its end while region playback is on
RegionEnded(currentTime) ==
    /\ store.wavesurfer.attached
    /\ store.wavesurfer.playing
    /\ currentTime >= store.wavesurfer.time
    /\ store.regionPlayback.isPlaying
    /\ store.regionPlayback.currentRegionId # ""
    /\ FindIndex(store.regions, store.regionPlayback.currentRegionId) # 0
    /\ currentTime >= RegionOf(store, store.regionPlayback.currentRegionId).end

\* the step of the store on the 'audioprocess' event at that position
EndOfRegionStep(currentTime) ==
    /\ RegionEnded(currentTime)
    /\ store' = audioprocess([store EXCEPT !.wavesurfer.time = currentTime], currentTime)

\* the store has moved to the region nextRegionId of the queue: the id is in
\* the queue and names a region of regions, and the player is at its start
MovedTo(nextRegionId) ==
    /\ store'.regionPlayback.isPlaying
    /\ store'.regionPlayback.currentRegionId = nextRegionId
    /\ IndexOf(store'.regionPlayback.queue, nextRegionId) # 0
    /\ FindIndex(store'.regions, nextRegionId) # 0
    /\ store'.wavesurfer.time = RegionOf(store', nextRegionId).start
    /\ store'.wavesurfer.playing

\* C29: while regionPlayback.isPlaying, each time the position reaches the
\* end of the current region the store moves to the next region of the queue,
\* which does not start earlier, seeking to its start; after the last region
\* it returns to the first one when isLooping is set and sets isPlaying to
\* false otherwise; at every such step currentRegionId is an id of the queue
\* that names a region of regions, whatever addRegion, removeRegion,
\* selectRegion, removeSelectedRegions, clearRegions and importRegions did
\* in between
C29_PlaybackFollowsQueue ==
    [][\A currentTime \in 0..MaxTime :
          EndOfRegionStep(currentTime)
          => LET queue == store.regionPlayback.queue
                 currentIndex == IndexOf(queue, store.regionPlayback.currentRegionId)
             IN IF currentIndex < Len(queue)
                THEN /\ MovedTo(queue[currentIndex + 1])
                     /\ RegionOf(store', queue[currentIndex + 1]).start
                           >= RegionOf(store, store.regionPlayback.currentRegionId).start
                ELSE IF store.regionPlayback.isLooping
                THEN MovedTo(queue[1])
                ELSE ~store'.regionPlayback.isPlaying]_vars

\* C30: after any sequence of addRegion, updateRegion, removeRegion,
\* removeSelectedRegions, selectRegion, clearRegions, importRegions and
\* loadAudio, the ids of regions are pairwise distinct, and every id of
\* selectedRegions occurs there once and names a region of regions
C30_RegionIdsConsistent ==
    /\ \A i, j \in 1..Len(store.regions) :
          i # j => store.regions[i].id # store.regions[j].id
    /\ \A i \in 1..Len(store.selectedRegions) :
          /\ \A j \in 1..Len(store.selectedRegions) :
                i # j => store.selectedRegions[i] # store.selectedRegions[j]
          /\ FindIndex(store.regions, store.selectedRegions[i]) # 0

====
